---- MODULE Spec2Model ----
(***************************************************************************)
(* A model of formula-evaluator: the lexer, the precedence-climbing        *)
(* parser, the tree-walking evaluator with its lazy special forms, the     *)
(* dependency collector and the function registry.                         *)
(*                                                                         *)
(* A JavaScript string is a sequence of one-character strings, a number is *)
(* a normalised fraction n/d (d = 0 encodes Infinity, -Infinity and NaN),  *)
(* and an object is its map of own properties plus a prototype link.       *)
(***************************************************************************)
EXTENDS Integers, Sequences, FiniteSets, TLC

VARIABLES builtinFunctions, functions, keyOrder, context, pc, call, result, other

vars == <<builtinFunctions, functions, keyOrder, context, pc, call, result, other>>

(***************************************************************************)
(* Characters                                                              *)
(***************************************************************************)
DigitSeq == <<"0", "1", "2", "3", "4", "5", "6", "7", "8", "9">>

LowerSeq == <<"a", "b", "c", "d", "e", "f", "g", "h", "i", "j", "k", "l", "m",
              "n", "o", "p", "q", "r", "s", "t", "u", "v", "w", "x", "y", "z">>

UpperSeq == <<"A", "B", "C", "D", "E", "F", "G", "H", "I", "J", "K", "L", "M",
              "N", "O", "P", "Q", "R", "S", "T", "U", "V", "W", "X", "Y", "Z">>

Range(s) == {s[i] : i \in 1..Len(s)}

Digits == Range(DigitSeq)

UpperLetters == Range(UpperSeq)

Letters == Range(LowerSeq) \cup UpperLetters

IsDigit(c) == c \in Digits

IsLetter(c) == c \in Letters

\* \w and \d of the Identifier rule
IsWord(c) == IsLetter(c) \/ IsDigit(c) \/ c = "_"

\* \s of the Whitespace rule
IsSpace(c) == c \in {" ", "\t", "\n", "\r", "\f"}

IsOperatorChar(c) == c \in {"+", "=", "-", ">", "<", "&", "|", "/", "*", "!"}

IsDelimiterChar(c) == c \in {"(", ")", ","}

DigitValue(c) == (CHOOSE i \in 1..10 : DigitSeq[i] = c) - 1

\* String.prototype.toLowerCase on the characters an identifier can hold
LowerChar(c) ==
    IF c \in UpperLetters
    THEN LowerSeq[CHOOSE i \in 1..26 : UpperSeq[i] = c]
    ELSE c

toLowerCase(s) == [i \in 1..Len(s) |-> LowerChar(s[i])]

(***************************************************************************)
(* Lexer                                                                   *)
(***************************************************************************)
TOKEN_TYPES ==
    [NUMBER |-> "number", STRING |-> "string", IDENTIFIER |-> "identifier",
     OPERATOR |-> "operator", DELIMITER |-> "delimiter",
     WHITESPACE |-> "whitespace"]

\* The rules in the order tokenize tries them.
TOKEN_RULES ==
    <<TOKEN_TYPES.STRING, TOKEN_TYPES.NUMBER, TOKEN_TYPES.IDENTIFIER,
      TOKEN_TYPES.OPERATOR, TOKEN_TYPES.DELIMITER, TOKEN_TYPES.WHITESPACE>>

\* str[pos] with the source's 0-based offsets; "" past the end
CharAt(str, pos) == IF pos >= 0 /\ pos < Len(str) THEN str[pos + 1] ELSE ""

IsNotQuote(c) == c /= "\""

\* Membership of a character in a character class of the token rules.
InClass(cls, c) ==
    CASE cls = "digit"    -> IsDigit(c)
      [] cls = "word"     -> IsWord(c)
      [] cls = "space"    -> IsSpace(c)
      [] cls = "notquote" -> IsNotQuote(c)

\* The length of the longest run of characters of class cls starting at pos.
RECURSIVE RunLen(_, _, _)
RunLen(str, pos, cls) ==
    IF pos < Len(str) /\ InClass(cls, str[pos + 1])
    THEN 1 + RunLen(str, pos + 1, cls)
    ELSE 0

\* MatchString as it would be if the end of the text closed a string.
MatchStringToEnd(str, pos) ==
    IF CharAt(str, pos) /= "\"" THEN 0
    ELSE LET body == RunLen(str, pos + 1, "notquote")
         IN  IF CharAt(str, pos + 1 + body) = "\"" THEN body + 2 ELSE body + 1

\* /"([^"]*)"/ anchored at pos: the length of the match, 0 when there is none
MatchString(str, pos) ==
    IF CharAt(str, pos) /= "\"" THEN 0
    ELSE LET body == RunLen(str, pos + 1, "notquote")
         IN  IF CharAt(str, pos + 1 + body) = "\"" THEN body + 2 ELSE 0

\* MatchNumber as it would be for /\d+\.?\d*|\.\d+/: a trailing "." belongs
\* to the number.
MatchNumberTrailingDot(str, pos) ==
    LET whole == RunLen(str, pos, "digit")
        frac  == IF CharAt(str, pos + whole) = "."
                 THEN RunLen(str, pos + whole + 1, "digit")
                 ELSE 0
    IN  IF frac > 0 THEN whole + 1 + frac
        ELSE IF whole > 0 /\ CharAt(str, pos + whole) = "." THEN whole + 1
        ELSE whole

\* /\d*\.?\d+/ anchored at pos, with the backtracking of the greedy \d*
MatchNumber(str, pos) ==
    LET whole == RunLen(str, pos, "digit")
        frac  == IF CharAt(str, pos + whole) = "."
                 THEN RunLen(str, pos + whole + 1, "digit")
                 ELSE 0
    IN  IF frac > 0 THEN whole + 1 + frac ELSE whole

\* /[a-zA-Z][\w\d]*/ anchored at pos
MatchIdentifier(str, pos) ==
    IF IsLetter(CharAt(str, pos)) THEN 1 + RunLen(str, pos + 1, "word") ELSE 0

\* /!=|>=|<=|[+=\-><&|/*!/]/ anchored at pos
MatchOperator(str, pos) ==
    IF CharAt(str, pos) \in {"!", ">", "<"} /\ CharAt(str, pos + 1) = "=" THEN 2
    ELSE IF IsOperatorChar(CharAt(str, pos)) THEN 1
    ELSE 0

\* /[(),]/ anchored at pos
MatchDelimiter(str, pos) == IF IsDelimiterChar(CharAt(str, pos)) THEN 1 ELSE 0

\* /\s+/ anchored at pos
MatchWhitespace(str, pos) == RunLen(str, pos, "space")

\* The regex of the rule anchored at pos: the length of its match, 0 for none.
MatchLen(type, str, pos) ==
    CASE type = TOKEN_TYPES.STRING     -> MatchString(str, pos)
      [] type = TOKEN_TYPES.NUMBER     -> MatchNumber(str, pos)
      [] type = TOKEN_TYPES.IDENTIFIER -> MatchIdentifier(str, pos)
      [] type = TOKEN_TYPES.OPERATOR   -> MatchOperator(str, pos)
      [] type = TOKEN_TYPES.DELIMITER  -> MatchDelimiter(str, pos)
      [] type = TOKEN_TYPES.WHITESPACE -> MatchWhitespace(str, pos)

\* An Error with its message template and the values filled into it.
Error(msg, pos, text) == [msg |-> msg, pos |-> pos, text |-> text]

NoError == Error("", -1, <<>>)

Token(type, value, start, end) ==
    [type |-> type, value |-> value, start |-> start, end |-> end]

\* The lastIndex of each regex of TOKEN_RULES when the module has been loaded.
\* The regexes are module-level objects: every evaluator of the process uses
\* the same six.
FreshRegexes == [r \in 1..Len(TOKEN_RULES) |-> 0]

\* regex.exec(str) of a global regex whose lastIndex is lastIndex: the leftmost
\* match at or after lastIndex and the lastIndex the call leaves, 0 for no match.
RECURSIVE exec(_, _, _)
execAt(type, str, index, len) ==
    IF len > 0
    THEN [found |-> TRUE, index |-> index, len |-> len, lastIndex |-> index + len]
    ELSE exec(type, str, index + 1)

exec(type, str, lastIndex) ==
    IF lastIndex >= Len(str)
    THEN [found |-> FALSE, index |-> -1, len |-> 0, lastIndex |-> 0]
    ELSE execAt(type, str, lastIndex, MatchLen(type, str, lastIndex))

\* LastIndexSet as it would be without the assignment.
LastIndexKept(regexes, r, pos) == regexes

\* regex.lastIndex = pos
LastIndexSet(regexes, r, pos) == [regexes EXCEPT ![r] = pos]

RECURSIVE FirstRuleFrom(_, _, _, _)

\* if (match && match.index === pos) ... break, else the next rule
FirstRuleTried(r, str, pos, regexes, match) ==
    IF match.found /\ match.index = pos
    THEN [rule |-> r, len |-> match.len,
          regexes |-> [regexes EXCEPT ![r] = match.lastIndex]]
    ELSE FirstRuleFrom(r + 1, str, pos, [regexes EXCEPT ![r] = match.lastIndex])

\* const match = regex.exec(str)
FirstRuleExec(r, str, pos, regexes) ==
    FirstRuleTried(r, str, pos, regexes, exec(TOKEN_RULES[r], str, regexes[r]))

\* The for loop over TOKEN_RULES from rule r: the index of the first rule that
\* matches at pos (0 for none), the length matched, the regexes afterwards.
FirstRuleFrom(r, str, pos, regexes) ==
    IF r > Len(TOKEN_RULES) THEN [rule |-> 0, len |-> 0, regexes |-> regexes]
    ELSE FirstRuleExec(r, str, pos, LastIndexSet(regexes, r, pos))

FirstRule(str, pos, regexes) == FirstRuleFrom(1, str, pos, regexes)

Lexed(ok, tokens, err, regexes) ==
    [ok |-> ok, tokens |-> tokens, err |-> err, regexes |-> regexes]

RECURSIVE tokenizeFrom(_, _, _, _)

\* tokens.push(...) unless the rule is WHITESPACE; pos += match[0].length
tokenizeMatched(str, pos, tokens, m) ==
    LET type == TOKEN_RULES[m.rule]
        value == IF type = TOKEN_TYPES.STRING
                 THEN SubSeq(str, pos + 2, pos + m.len - 1)
                 ELSE SubSeq(str, pos + 1, pos + m.len)
    IN  tokenizeFrom(str, pos + m.len,
            IF type /= TOKEN_TYPES.WHITESPACE
            THEN Append(tokens, Token(type, value, pos, pos + m.len))
            ELSE tokens,
            m.regexes)

\* tokenizeStep as it would be if a character no rule matches were skipped.
tokenizeStepSkipping(str, pos, tokens, m) ==
    IF m.rule = 0 THEN tokenizeFrom(str, pos + 1, tokens, m.regexes)
    ELSE tokenizeMatched(str, pos, tokens, m)

\* One turn of tokenize's while loop after its for loop gave m.
tokenizeStep(str, pos, tokens, m) ==
    IF m.rule = 0
    THEN Lexed(FALSE, <<>>,
               Error("Unexpected character at {pos}: {char}", pos, <<str[pos + 1]>>),
               m.regexes)
    ELSE tokenizeMatched(str, pos, tokens, m)

\* tokenize's while loop, from cursor pos with the tokens so far.
tokenizeFrom(str, pos, tokens, regexes) ==
    IF pos >= Len(str) THEN Lexed(TRUE, tokens, NoError, regexes)
    ELSE tokenizeStep(str, pos, tokens, FirstRule(str, pos, regexes))

\* evaluator.tokenize(str) when the regexes of TOKEN_RULES are as earlier calls
\* left them.
tokenizeWith(str, regexes) == tokenizeFrom(str, 0, <<>>, regexes)

\* evaluator.tokenize(str) as the first call after the module has been loaded.
tokenize(str) == tokenizeWith(str, FreshRegexes)

(***************************************************************************)
(* Values                                                                  *)
(***************************************************************************)
RECURSIVE Gcd(_, _)
Gcd(a, b) == IF b = 0 THEN a ELSE Gcd(b, a % b)

Abs(n) == IF n < 0 THEN -n ELSE n

Sign(n) == IF n < 0 THEN -1 ELSE IF n > 0 THEN 1 ELSE 0

Value(t, n, d, s) == [t |-> t, n |-> n, d |-> d, s |-> s]

\* The number n/d in lowest terms; n/0 is Infinity, -Infinity or NaN by sign.
Num(n, d) ==
    IF d = 0 THEN Value("number", Sign(n), 0, <<>>)
    ELSE LET g == Gcd(Abs(n), Abs(d))
         IN  Value("number", (Sign(d) * n) \div g, Abs(d) \div g, <<>>)

NaN == Num(0, 0)

Infinity == Num(1, 0)

Str(s) == Value("string", 0, 1, s)

Bool(b) == Value("boolean", IF b THEN 1 ELSE 0, 1, <<>>)

Undefined == Value("undefined", 0, 1, <<>>)

Null == Value("null", 0, 1, <<>>)

\* A host function object, named by s.
Fn(s) == Value("function", 0, 1, s)

IsNaN(v) == v.t = "number" /\ v.d = 0 /\ v.n = 0

RECURSIVE Pow10(_)
Pow10(k) == IF k = 0 THEN 1 ELSE 10 * Pow10(k - 1)

\* The integer a run of digits denotes.
RECURSIVE DigitsValue(_)
DigitsValue(s) ==
    IF s = <<>> THEN 0
    ELSE 10 * DigitsValue(SubSeq(s, 1, Len(s) - 1)) + DigitValue(s[Len(s)])

\* parseFloat on the text of a Number token (digits, at most one ".")
parseFloat(s) ==
    IF \E i \in 1..Len(s) : s[i] = "."
    THEN LET dot == CHOOSE i \in 1..Len(s) : s[i] = "."
             fr  == SubSeq(s, dot + 1, Len(s))
         IN  Num(DigitsValue(SubSeq(s, 1, dot - 1)) * Pow10(Len(fr)) + DigitsValue(fr),
                 Pow10(Len(fr)))
    ELSE Num(DigitsValue(s), 1)

(***************************************************************************)
(* Parser                                                                  *)
(***************************************************************************)
\* ASTNode = FunctionNode | VariableNode | number | string | boolean | null
FunctionNode(name, args) ==
    [type |-> "function", name |-> name, args |-> args, value |-> Undefined]

VariableNode(name) ==
    [type |-> "variable", name |-> name, args |-> <<>>, value |-> Undefined]

\* A node that is a bare number, string, boolean or null.
LiteralNode(v) == [type |-> "literal", name |-> <<>>, args |-> <<>>, value |-> v]

OP_MAP ==
    (<<"+">> :> <<"_", "_", "a", "d", "d">>) @@
    (<<"-">> :> <<"_", "_", "s", "u", "b">>) @@
    (<<"=">> :> <<"_", "_", "e", "q">>) @@
    (<<"!", "=">> :> <<"_", "_", "n", "e", "q">>) @@
    (<<">">> :> <<"_", "_", "g", "t">>) @@
    (<<">", "=">> :> <<"_", "_", "g", "t", "e">>) @@
    (<<"<">> :> <<"_", "_", "l", "t">>) @@
    (<<"<", "=">> :> <<"_", "_", "l", "t", "e">>) @@
    (<<"*">> :> <<"_", "_", "m", "u", "l">>) @@
    (<<"/">> :> <<"_", "_", "d", "i", "v">>) @@
    (<<"&">> :> <<"_", "_", "a", "n", "d">>) @@
    (<<"|">> :> <<"_", "_", "o", "r">>)

OP_PRECEDENCE ==
    (<<"|">> :> 1) @@ (<<"&">> :> 2) @@ (<<"=">> :> 3) @@ (<<"!", "=">> :> 3) @@
    (<<">">> :> 4) @@ (<<">", "=">> :> 4) @@ (<<"<">> :> 4) @@ (<<"<", "=">> :> 4) @@
    (<<"+">> :> 5) @@ (<<"-">> :> 5) @@ (<<"*">> :> 6) @@ (<<"/">> :> 6)

NOT_NAME == <<"_", "_", "n", "o", "t">>

NEG_NAME == <<"_", "_", "n", "e", "g">>

\* What a parsing function hands back: the node and the cursor, or the Error thrown.
Parsed(node, pos) == [ok |-> TRUE, node |-> node, pos |-> pos, err |-> NoError]

Thrown(err) == [ok |-> FALSE, node |-> LiteralNode(Null), pos |-> -1, err |-> err]

MissingParen == Error("Missing closing parenthesis", -1, <<>>)

\* tokens[pos] && tokens[pos].value === text
ValueIs(tokens, pos, text) == pos < Len(tokens) /\ tokens[pos + 1].value = text

RECURSIVE parseExpression(_, _, _)
RECURSIVE parseExpressionLoop(_, _, _, _)
RECURSIVE parseToken(_, _)
RECURSIVE parseArguments(_, _, _)

\* parseExpressionLoop as it would be if the right operand were parsed from
\* precedence 0: the operator table's order is lost.
parseExpressionLoopNoPrecedence(tokens, node, pos, minPrec) ==
    IF pos >= Len(tokens) THEN Parsed(node, pos)
    ELSE LET currentToken == tokens[pos + 1] IN
         IF currentToken.type /= TOKEN_TYPES.OPERATOR THEN Parsed(node, pos)
         ELSE IF currentToken.value \notin DOMAIN OP_PRECEDENCE THEN Parsed(node, pos)
         ELSE LET prec == OP_PRECEDENCE[currentToken.value] IN
              IF prec < minPrec THEN Parsed(node, pos)
              ELSE LET right == parseExpression(tokens, pos + 1, 0) IN
                   IF ~right.ok THEN right
                   ELSE parseExpressionLoop(tokens,
                            FunctionNode(OP_MAP[currentToken.value],
                                         <<node, right.node>>),
                            right.pos, minPrec)

\* parseExpressionLoop as it would be if the right operand were parsed from
\* prec instead of prec + 1: equal-precedence chains nest to the right.
parseExpressionLoopRightAssoc(tokens, node, pos, minPrec) ==
    IF pos >= Len(tokens) THEN Parsed(node, pos)
    ELSE LET currentToken == tokens[pos + 1] IN
         IF currentToken.type /= TOKEN_TYPES.OPERATOR THEN Parsed(node, pos)
         ELSE IF currentToken.value \notin DOMAIN OP_PRECEDENCE THEN Parsed(node, pos)
         ELSE LET prec == OP_PRECEDENCE[currentToken.value] IN
              IF prec < minPrec THEN Parsed(node, pos)
              ELSE LET right == parseExpression(tokens, pos + 1, prec) IN
                   IF ~right.ok THEN right
                   ELSE parseExpressionLoop(tokens,
                            FunctionNode(OP_MAP[currentToken.value],
                                         <<node, right.node>>),
                            right.pos, minPrec)

\* The while loop of parseExpression, with the node folded so far.
parseExpressionLoop(tokens, node, pos, minPrec) ==
    IF pos >= Len(tokens) THEN Parsed(node, pos)
    ELSE LET currentToken == tokens[pos + 1] IN
         IF currentToken.type /= TOKEN_TYPES.OPERATOR THEN Parsed(node, pos)
         ELSE IF currentToken.value \notin DOMAIN OP_PRECEDENCE THEN Parsed(node, pos)
         ELSE LET prec == OP_PRECEDENCE[currentToken.value] IN
              IF prec < minPrec THEN Parsed(node, pos)
              ELSE LET right == parseExpression(tokens, pos + 1, prec + 1) IN
                   IF ~right.ok THEN right
                   ELSE parseExpressionLoop(tokens,
                            FunctionNode(OP_MAP[currentToken.value],
                                         <<node, right.node>>),
                            right.pos, minPrec)

parseExpression(tokens, pos, minPrec) ==
    LET first == parseToken(tokens, pos) IN
    IF ~first.ok THEN first
    ELSE parseExpressionLoop(tokens, first.node, first.pos, minPrec)

\* The argument loop of a call, from the token after "(" with the args so far.
parseArguments(tokens, pos, args) ==
    IF pos < Len(tokens) /\ tokens[pos + 1].value /= <<")">>
    THEN LET arg == parseExpression(tokens, pos, 0) IN
         IF ~arg.ok THEN [ok |-> FALSE, args |-> <<>>, pos |-> -1, err |-> arg.err]
         ELSE parseArguments(tokens,
                  IF ValueIs(tokens, arg.pos, <<",">>) THEN arg.pos + 1 ELSE arg.pos,
                  Append(args, arg.node))
    ELSE [ok |-> TRUE, args |-> args, pos |-> pos, err |-> NoError]

\* parsePrefix as it would be if the operand were a whole expression.
parsePrefixLoose(tokens, pos, name) ==
    LET operand == parseExpression(tokens, pos, 0) IN
    IF ~operand.ok THEN operand
    ELSE Parsed(FunctionNode(name, <<operand.node>>), operand.pos)

\* const operand = parseToken(); return { type: 'function', name, args: [operand] }
\* for the prefix operator before pos
parsePrefix(tokens, pos, name) ==
    LET operand == parseToken(tokens, pos) IN
    IF ~operand.ok THEN operand
    ELSE Parsed(FunctionNode(name, <<operand.node>>), operand.pos)

\* parseNoAtom as it would be if tokens[pos++] were tokens[pos], with the
\* increment left to the branches that use the token.
parseNoAtomUnconsumed(next) == Parsed(LiteralNode(Null), next - 1)

\* return null: the token, already consumed, starts no atom
parseNoAtom(next) == Parsed(LiteralNode(Null), next)

parseToken(tokens, pos) ==
    IF pos >= Len(tokens) THEN Parsed(LiteralNode(Null), pos + 1)
    ELSE
    LET token == tokens[pos + 1]
        next  == pos + 1
    IN
    IF token.type = TOKEN_TYPES.OPERATOR /\ token.value = <<"!">>
    THEN parsePrefix(tokens, next, NOT_NAME)
    ELSE IF token.type = TOKEN_TYPES.OPERATOR /\ token.value = <<"-">>
    THEN parsePrefix(tokens, next, NEG_NAME)
    ELSE IF token.type = TOKEN_TYPES.NUMBER
    THEN Parsed(LiteralNode(parseFloat(token.value)), next)
    ELSE IF token.value = <<"t", "r", "u", "e">>
    THEN Parsed(LiteralNode(Bool(TRUE)), next)
    ELSE IF token.value = <<"f", "a", "l", "s", "e">>
    THEN Parsed(LiteralNode(Bool(FALSE)), next)
    ELSE IF token.type = TOKEN_TYPES.STRING
    THEN Parsed(LiteralNode(Str(token.value)), next)
    ELSE IF token.type = TOKEN_TYPES.IDENTIFIER
    THEN IF ValueIs(tokens, next, <<"(">>)
         THEN LET list == parseArguments(tokens, next + 1, <<>>) IN
              IF ~list.ok THEN Thrown(list.err)
              ELSE IF ~ValueIs(tokens, list.pos, <<")">>) THEN Thrown(MissingParen)
              ELSE Parsed(FunctionNode(toLowerCase(token.value), list.args),
                          list.pos + 1)
         ELSE Parsed(VariableNode(token.value), next)
    ELSE IF token.value = <<"(">>
    THEN LET inner == parseExpression(tokens, next, 0) IN
         IF ~inner.ok THEN inner
         ELSE IF ~ValueIs(tokens, inner.pos, <<")">>) THEN Thrown(MissingParen)
         ELSE Parsed(inner.node, inner.pos + 1)
    ELSE parseNoAtom(next)

\* parse as it would be without the check for tokens left over.
parseIgnoringRest(tokens) == parseExpression(tokens, 0, 0)

parse(tokens) ==
    LET parsed == parseExpression(tokens, 0, 0) IN
    IF ~parsed.ok THEN parsed
    ELSE IF parsed.pos < Len(tokens)
    THEN Thrown(Error("Unexpected token: {text}", -1, tokens[parsed.pos + 1].value))
    ELSE parsed

(***************************************************************************)
(* The value semantics of the host language that the built-ins rely on     *)
(***************************************************************************)
\* Boolean(v): false, 0, NaN, "", null and undefined are falsy
Truthy(v) ==
    CASE v.t = "boolean"   -> v.n = 1
      [] v.t = "number"    -> v.n /= 0
      [] v.t = "string"    -> v.s /= <<>>
      [] v.t = "undefined" -> FALSE
      [] v.t = "null"      -> FALSE
      [] v.t = "function"  -> TRUE

\* Number(v) for a value that is not a string or a function
ToNumber(v) ==
    CASE v.t = "number"    -> v
      [] v.t = "boolean"   -> Num(v.n, 1)
      [] v.t = "undefined" -> NaN
      [] v.t = "null"      -> Num(0, 1)

NumAdd(a, b) ==
    IF IsNaN(a) \/ IsNaN(b) THEN NaN
    ELSE IF a.d = 0 /\ b.d = 0 THEN (IF a.n = b.n THEN a ELSE NaN)
    ELSE IF a.d = 0 THEN a
    ELSE IF b.d = 0 THEN b
    ELSE Num(a.n * b.d + b.n * a.d, a.d * b.d)

NumNeg(a) == Value("number", -a.n, a.d, <<>>)

NumSub(a, b) == NumAdd(a, NumNeg(b))

NumMul(a, b) ==
    IF IsNaN(a) \/ IsNaN(b) THEN NaN
    ELSE IF a.d = 0 \/ b.d = 0 THEN Num(Sign(a.n) * Sign(b.n), 0)
    ELSE Num(a.n * b.n, a.d * b.d)

\* a / b: a division by zero is Infinity, -Infinity or NaN, never an error
NumDiv(a, b) ==
    IF IsNaN(a) \/ IsNaN(b) THEN NaN
    ELSE IF b.d = 0 THEN (IF a.d = 0 THEN NaN ELSE Num(0, 1))
    ELSE IF a.d = 0 THEN Num(a.n * (IF b.n < 0 THEN -1 ELSE 1), 0)
    ELSE Num(a.n * b.d, a.d * b.n)

\* a < b on numbers: false when either is NaN
NumLess(a, b) ==
    IF IsNaN(a) \/ IsNaN(b) THEN FALSE
    ELSE IF a.d = 0 /\ b.d = 0 THEN a.n < b.n
    ELSE IF a.d = 0 THEN a.n < 0
    ELSE IF b.d = 0 THEN b.n > 0
    ELSE a.n * b.d < b.n * a.d

NumEq(a, b) == ~IsNaN(a) /\ ~IsNaN(b) /\ a = b

\* a === b
StrictEquals(a, b) ==
    /\ a.t = b.t
    /\ IF a.t = "number" THEN NumEq(a, b) ELSE a = b

\* The decimal digits of a natural number.
RECURSIVE NatToString(_)
NatToString(n) ==
    IF n < 10 THEN <<DigitSeq[n + 1]>>
    ELSE Append(NatToString(n \div 10), DigitSeq[(n % 10) + 1])

\* String(v) for a string, a boolean, null, undefined and an integral number
JsString(v) ==
    CASE v.t = "string"    -> v.s
      [] v.t = "boolean"   -> IF v.n = 1 THEN <<"t", "r", "u", "e">>
                              ELSE <<"f", "a", "l", "s", "e">>
      [] v.t = "undefined" -> <<"u", "n", "d", "e", "f", "i", "n", "e", "d">>
      [] v.t = "null"      -> <<"n", "u", "l", "l">>
      [] v.t = "number" /\ IsNaN(v) -> <<"N", "a", "N">>
      [] v.t = "number" /\ v.d = 1 /\ v.n >= 0 -> NatToString(v.n)
      [] v.t = "number" /\ v.d = 1 /\ v.n < 0  -> <<"-">> \o NatToString(-v.n)

\* a + b: concatenation when either operand is a string, addition otherwise
JsAdd(a, b) ==
    IF a.t = "string" \/ b.t = "string"
    THEN Str(JsString(a) \o JsString(b))
    ELSE NumAdd(ToNumber(a), ToNumber(b))

\* a < b for operands that are not both strings
JsLess(a, b) == NumLess(ToNumber(a), ToNumber(b))

\* a <= b for operands that are not both strings
JsLessEq(a, b) ==
    LET x == ToNumber(a)
        y == ToNumber(b)
    IN  NumLess(x, y) \/ NumEq(x, y)

\* The i-th argument of a call (1-based), undefined when it was not passed.
Arg(args, i) == IF i <= Len(args) THEN args[i] ELSE Undefined

\* args.reduce((a, b) => Number(a) + Number(b), 0)
RECURSIVE SumOf(_)
SumOf(args) ==
    IF args = <<>> THEN Num(0, 1)
    ELSE NumAdd(ToNumber(SumOf(SubSeq(args, 1, Len(args) - 1))),
                ToNumber(args[Len(args)]))

\* What calling a function gives: the value returned, or the Error thrown.
Returned(v) == [ok |-> TRUE, value |-> v, err |-> NoError]

Raised(err) == [ok |-> FALSE, value |-> Undefined, err |-> err]

(***************************************************************************)
(* Function registry                                                       *)
(***************************************************************************)
\* The keys of builtinFunctions, in the order the object literal lists them.
BuiltinNameSeq ==
    <<<<"u", "p", "p", "e", "r">>,
      <<"j", "o", "i", "n">>,
      <<"s", "u", "m">>,
      <<"a", "v", "g">>,
      <<"i", "f">>,
      <<"c", "o", "a", "l", "e", "s", "c", "e">>,
      <<"i", "s", "b", "l", "a", "n", "k">>,
      <<"a", "n", "d">>,
      <<"o", "r">>,
      <<"i", "f", "e", "r", "r">>,
      <<"r", "o", "u", "n", "d">>,
      <<"c", "l", "a", "m", "p">>,
      <<"a", "b", "s">>,
      <<"m", "e", "a", "n">>,
      <<"m", "e", "d", "i", "a", "n">>,
      <<"m", "o", "d", "e">>,
      <<"m", "a", "x">>,
      <<"m", "i", "n">>,
      <<"i", "s", "n", "a", "n">>,
      <<"l", "o", "w", "e", "r">>,
      <<"i", "s", "t", "e", "x", "t">>,
      <<"c", "o", "n", "t", "a", "i", "n", "s">>,
      <<"r", "e", "p", "l", "a", "c", "e">>,
      <<"n", "o", "t">>,
      <<"c", "o", "n", "c", "a", "t">>,
      <<"_", "_", "a", "d", "d">>,
      <<"_", "_", "s", "u", "b">>,
      <<"_", "_", "e", "q">>,
      <<"_", "_", "n", "e", "q">>,
      <<"_", "_", "g", "t">>,
      <<"_", "_", "g", "t", "e">>,
      <<"_", "_", "l", "t">>,
      <<"_", "_", "l", "t", "e">>,
      <<"_", "_", "m", "u", "l">>,
      <<"_", "_", "d", "i", "v">>,
      <<"_", "_", "a", "n", "d">>,
      <<"_", "_", "o", "r">>,
      <<"_", "_", "n", "o", "t">>,
      <<"_", "_", "n", "e", "g">>>>

\* The description of each entry of builtinFunctions, in the same order.
BuiltinDescriptionSeq ==
    <<"Converts a value to an uppercase string",
      "Joins arguments with a separator",
      "Sums all arguments numerically",
      "Alias for mean. Returns the arithmetic mean of all arguments",
      "Returns the second argument if the condition is truthy, otherwise the third",
      "Returns the first non-null/non-undefined value",
      "Returns true if a value is an empty string or null/undefined",
      "Returns true if all arguments are truthy",
      "Returns true if any argument is truthy",
      "Returns the first argument, or the second if the first throws an error",
      "Rounds a number to a specific decimal precision",
      "Restricts a number to a given range",
      "Returns the absolute value of a number",
      "Returns the arithmetic mean of all arguments",
      "Returns the median of all arguments",
      "Returns the most frequently occurring value",
      "Returns the largest of all arguments",
      "Returns the smallest of all arguments",
      "Returns true if the value is NaN",
      "Converts a value to a lowercase string",
      "Returns true if the value is a string",
      "Returns true if the string contains the search value",
      "Replaces all occurrences of a search value with a replacement",
      "Returns the logical negation of a value",
      "Concatenates all arguments without a separator",
      "Addition operator",
      "Subtraction operator",
      "Equality operator",
      "Not-equal operator",
      "Greater-than operator",
      "Greater-than-or-equal operator",
      "Less-than operator",
      "Less-than-or-equal operator",
      "Multiplication operator",
      "Division operator",
      "Logical AND operator",
      "Logical OR operator",
      "Logical NOT operator",
      "Unary negation operator">>

BuiltinNames == Range(BuiltinNameSeq)

n_if == <<"i", "f">>

n_iferr == <<"i", "f", "e", "r", "r">>

n_sum == <<"s", "u", "m">>

n_mean == <<"m", "e", "a", "n">>

n_avg == <<"a", "v", "g">>

n_not == <<"n", "o", "t">>

\* The function object a built-in entry was written with.
BuiltinFn(name) == Value("function", 0, 1, name)

\* A function object the host passes to registerFunction.
HostFn(name) == Value("function", 1, 1, name)

\* A method inherited from Object.prototype.
ObjectPrototypeFn(name) == Value("function", 2, 1, name)

\* A FunctionDef; alias names the entry a getter-backed fn reads through.
FunctionDef(fn, alias, description) ==
    [fn |-> fn, alias |-> alias, description |-> description]

\* The getter-backed entries: avg reads mean's fn, not reads __not's fn.
BuiltinAlias(name) ==
    IF name = n_avg THEN n_mean
    ELSE IF name = n_not THEN NOT_NAME
    ELSE <<>>

\* The builtinFunctions object as the module creates it: one FunctionDef
\* object per key.
builtinFunctionDefs ==
    [name \in BuiltinNames |->
        LET i == CHOOSE k \in 1..Len(BuiltinNameSeq) : BuiltinNameSeq[k] = name
        IN  FunctionDef(BuiltinFn(name), BuiltinAlias(name), BuiltinDescriptionSeq[i])]

\* def.fn, through the getter when the entry has one
DefFn(defs, def) == IF def.alias /= <<>> THEN defs[def.alias].fn ELSE def.fn

\* An entry of a registry's backing map: a reference to the FunctionDef object
\* of builtinFunctions it was spread from, or the registry's own FunctionDef.
SharedEntry(name) ==
    [shared |-> TRUE, key |-> name, def |-> FunctionDef(Undefined, <<>>, "")]

OwnEntry(fn, description) ==
    [shared |-> FALSE, key |-> <<>>, def |-> FunctionDef(fn, <<>>, description)]

\* The FunctionDef object an entry stands for.
EntryDef(defs, entry) == IF entry.shared THEN defs[entry.key] ELSE entry.def

\* const functions = { ...builtinFunctions } with no initial functions
createFunctionRegistry == [name \in BuiltinNames |-> SharedEntry(name)]

\* register as it would be if it stored the function under the name as given.
registerCaseSensitive(fns, name, fn, description) ==
    IF name.t /= "string" \/ name.s = <<>>
    THEN [ok |-> FALSE, functions |-> fns,
          err |-> Error("Function name must be a non-empty string", -1, <<>>)]
    ELSE IF fn.t /= "function"
    THEN [ok |-> FALSE, functions |-> fns,
          err |-> Error("Function implementation must be a function", -1, <<>>)]
    ELSE [ok |-> TRUE,
          functions |-> (name.s :> OwnEntry(fn, description)) @@ fns,
          err |-> NoError]

\* register as it would be if it tested fn before name.
registerFnCheckedFirst(fns, name, fn, description) ==
    IF fn.t /= "function"
    THEN [ok |-> FALSE, functions |-> fns,
          err |-> Error("Function implementation must be a function", -1, <<>>)]
    ELSE IF name.t /= "string" \/ name.s = <<>>
    THEN [ok |-> FALSE, functions |-> fns,
          err |-> Error("Function name must be a non-empty string", -1, <<>>)]
    ELSE [ok |-> TRUE,
          functions |-> (toLowerCase(name.s) :> OwnEntry(fn, description)) @@ fns,
          err |-> NoError]

\* register(name, fn, description): the backing map afterwards, or the Error
register(fns, name, fn, description) ==
    IF name.t /= "string" \/ name.s = <<>>
    THEN [ok |-> FALSE, functions |-> fns,
          err |-> Error("Function name must be a non-empty string", -1, <<>>)]
    ELSE IF fn.t /= "function"
    THEN [ok |-> FALSE, functions |-> fns,
          err |-> Error("Function implementation must be a function", -1, <<>>)]
    ELSE [ok |-> TRUE,
          functions |-> (toLowerCase(name.s) :> OwnEntry(fn, description)) @@ fns,
          err |-> NoError]

\* The properties every plain object inherits from Object.prototype.
ObjectPrototypeKeys ==
    {<<"c", "o", "n", "s", "t", "r", "u", "c", "t", "o", "r">>,
     <<"t", "o", "S", "t", "r", "i", "n", "g">>,
     <<"v", "a", "l", "u", "e", "O", "f">>,
     <<"h", "a", "s", "O", "w", "n", "P", "r", "o", "p", "e", "r", "t", "y">>,
     <<"i", "s", "P", "r", "o", "t", "o", "t", "y", "p", "e", "O", "f">>,
     <<"t", "o", "L", "o", "c", "a", "l", "e", "S", "t", "r", "i", "n", "g">>,
     <<"p", "r", "o", "p", "e", "r", "t", "y", "I", "s", "E", "n", "u", "m", "e", "r", "a", "b", "l", "e">>}

\* The own keys of the backing map in property order after functions[key] is
\* set: a new key goes last, an existing one keeps its place.
KeysAfterSet(order, key) ==
    IF key \in Range(order) THEN order ELSE Append(order, key)

\* The own keys in property order after delete functions[key].
KeysAfterDelete(order, key) == SelectSeq(order, LAMBDA k : k /= key)

\* The evaluator instance, as registerFunction returns it.
This == Value("object", 0, 1, <<"t", "h", "i", "s">>)

\* name in builtinFunctions: an own key, or one inherited from Object.prototype
InBuiltinFunctions(defs, name) == name \in DOMAIN defs \/ name \in ObjectPrototypeKeys

CannotUnregister(name) ==
    Error("Cannot unregister built-in function {name}", -1, name)

\* unregister as it would be if it tested the name as given.
unregisterCaseSensitive(fns, defs, name) ==
    LET lower == toLowerCase(name.s) IN
    IF InBuiltinFunctions(defs, name.s)
    THEN [ok |-> FALSE, functions |-> fns, value |-> Undefined,
          err |-> CannotUnregister(name.s)]
    ELSE [ok |-> TRUE, functions |-> [k \in DOMAIN fns \ {lower} |-> fns[k]],
          value |-> Bool(TRUE), err |-> NoError]

\* unregister(name): the backing map afterwards and what delete gave, or the
\* Error
unregister(fns, defs, name) ==
    LET lower == toLowerCase(name.s) IN
    IF InBuiltinFunctions(defs, lower)
    THEN [ok |-> FALSE, functions |-> fns, value |-> Undefined,
          err |-> CannotUnregister(name.s)]
    ELSE [ok |-> TRUE, functions |-> [k \in DOMAIN fns \ {lower} |-> fns[k]],
          value |-> Bool(TRUE), err |-> NoError]

\* has(name): name.toLowerCase() in functions
has(fns, name) ==
    toLowerCase(name) \in DOMAIN fns \/ toLowerCase(name) \in ObjectPrototypeKeys

\* name.startsWith('__')
StartsWithUnderscores(name) == Len(name) >= 2 /\ name[1] = "_" /\ name[2] = "_"

\* list(): Object.keys(functions).filter(name => !name.startsWith('__'))
list(order) == SelectSeq(order, LAMBDA name : ~StartsWithUnderscores(name))

\* describe(): name and description of each entry list() names
describe(fns, defs, order) ==
    [i \in 1..Len(list(order)) |->
        [name |-> list(order)[i],
         description |-> EntryDef(defs, fns[list(order)[i]]).description]]

\* An object with its own keys in property order.
OrderedObject(keys, entries) == [keys |-> keys, entries |-> entries]

NoObject == OrderedObject(<<>>, <<>>)

\* getAll(): { ...functions }, a new object holding the same FunctionDef objects
getAll(fns, order) == OrderedObject(order, fns)

\* get(name): functions[name.toLowerCase()]?.fn
get(fns, defs, name) ==
    LET lower == toLowerCase(name) IN
    IF lower \in DOMAIN fns THEN DefFn(defs, EntryDef(defs, fns[lower]))
    ELSE Undefined

\* The host functions the model registers.
n_seven == <<"s", "e", "v", "e", "n">>

n_boom == <<"b", "o", "o", "m">>

\* () => 7
seven == HostFn(n_seven)

\* () => { throw new Error("boom") }
boom == HostFn(n_boom)

\* The call fn(...args) of a built-in by the key it was written under.
ApplyBuiltin(name, args) ==
    LET a == Arg(args, 1)
        b == Arg(args, 2)
        c == Arg(args, 3)
    IN
    CASE name = n_sum  -> SumOf(args)
      [] name = n_mean -> NumDiv(SumOf(args), Num(Len(args), 1))
      [] name = n_if   -> IF Truthy(a) THEN b ELSE c
      [] name = n_iferr -> a
      [] name = <<"a", "n", "d">> -> Bool(\A i \in 1..Len(args) : Truthy(args[i]))
      [] name = <<"o", "r">> -> Bool(\E i \in 1..Len(args) : Truthy(args[i]))
      [] name = <<"i", "s", "t", "e", "x", "t">> -> Bool(a.t = "string")
      [] name = <<"i", "s", "b", "l", "a", "n", "k">> ->
            Bool(a = Str(<<>>) \/ a.t \in {"null", "undefined"})
      [] name = OP_MAP[<<"+">>] -> JsAdd(a, b)
      [] name = OP_MAP[<<"-">>] -> NumSub(ToNumber(a), ToNumber(b))
      [] name = OP_MAP[<<"*">>] -> NumMul(ToNumber(a), ToNumber(b))
      [] name = OP_MAP[<<"/">>] -> NumDiv(ToNumber(a), ToNumber(b))
      [] name = OP_MAP[<<"=">>] -> Bool(StrictEquals(a, b))
      [] name = OP_MAP[<<"!", "=">>] -> Bool(~StrictEquals(a, b))
      [] name = OP_MAP[<<">">>] -> Bool(JsLess(b, a))
      [] name = OP_MAP[<<">", "=">>] -> Bool(JsLessEq(b, a))
      [] name = OP_MAP[<<"<">>] -> Bool(JsLess(a, b))
      [] name = OP_MAP[<<"<", "=">>] -> Bool(JsLessEq(a, b))
      [] name = OP_MAP[<<"&">>] -> IF Truthy(a) THEN b ELSE a
      [] name = OP_MAP[<<"|">>] -> IF Truthy(a) THEN a ELSE b
      [] name = NOT_NAME -> Bool(~Truthy(a))
      [] name = NEG_NAME -> NumNeg(ToNumber(a))

\* The call fn(...args) of a function object.
Apply(fn, args) ==
    IF fn.n = 0 THEN Returned(ApplyBuiltin(fn.s, args))
    ELSE IF fn = seven THEN Returned(Num(7, 1))
    ELSE Raised(Error("boom", -1, <<>>))

(***************************************************************************)
(* Objects: own properties and a prototype link                            *)
(***************************************************************************)
\* A plain object {...own}; proto names the object it inherits from.
Obj(own, proto) == [own |-> own, proto |-> proto]

\* The objects an evaluate call works on: the evaluator's context object and
\* the localContext object the caller passed, both plain objects.
HeapOf(globalContext, localContext) ==
    [global |-> Obj(globalContext, "Object.prototype"),
     local  |-> Obj(localContext, "Object.prototype"),
     ctx    |-> Obj(<<>>, "Object.prototype")]

\* heap[ref] = Object.create(heap[proto])
ObjectCreate(heap, ref, proto) == [heap EXCEPT ![ref] = Obj(<<>>, proto)]

\* Object.assign(heap[target], heap[source]): the source's own properties
\* are set on the target
ObjectAssign(heap, target, source) ==
    [heap EXCEPT ![target].own = heap[source].own @@ heap[target].own]

\* name in heap[ref]
RECURSIVE HasProperty(_, _, _)
HasProperty(heap, ref, name) ==
    IF ref = "Object.prototype" THEN name \in ObjectPrototypeKeys
    ELSE \/ name \in DOMAIN heap[ref].own
         \/ HasProperty(heap, heap[ref].proto, name)

\* heap[ref][name]
RECURSIVE GetProperty(_, _, _)
GetProperty(heap, ref, name) ==
    IF ref = "Object.prototype"
    THEN (IF name \in ObjectPrototypeKeys THEN ObjectPrototypeFn(name) ELSE Undefined)
    ELSE IF name \in DOMAIN heap[ref].own THEN heap[ref].own[name]
    ELSE GetProperty(heap, heap[ref].proto, name)

\* MergeContext as it would be with the two contexts swapped.
MergeContextGlobalWins(heap) ==
    ObjectAssign(ObjectCreate(heap, "ctx", "local"), "ctx", "global")

\* MergeContext as it would be if it assigned into this.context itself.
MergeContextInPlace(heap) ==
    ObjectCreate(ObjectAssign(heap, "global", "local"), "ctx", "global")

\* const ctx = Object.assign(Object.create(this.context), localContext)
MergeContext(heap) == ObjectAssign(ObjectCreate(heap, "ctx", "global"), "ctx", "local")

(***************************************************************************)
(* Evaluator                                                               *)
(***************************************************************************)
\* What run does, in order: each node it is called on, each function it calls.
RunEvent(node) == [ev |-> "run", node |-> node, fn |-> Undefined, args |-> <<>>]

CallEvent(fn, args) ==
    [ev |-> "call", node |-> LiteralNode(Undefined), fn |-> fn, args |-> args]

\* What run(node) gives: the value returned or the Error thrown, and its log.
Ran(ok, value, err, log) == [ok |-> ok, value |-> value, err |-> err, log |-> log]

\* node.args[i] (0-based as in the source), undefined past the end
ArgNode(node, i) ==
    IF i < Len(node.args) THEN node.args[i + 1] ELSE LiteralNode(Undefined)

\* The outcome r with the log of what ran before it put in front.
After(log, r) == Ran(r.ok, r.value, r.err, log \o r.log)

RECURSIVE run(_, _, _, _)
RECURSIVE runArgs(_, _, _, _, _, _)
RECURSIVE runIf(_, _, _, _)
RECURSIVE runIferr(_, _, _, _)
RECURSIVE runCall(_, _, _, _)

\* The step of node.args.map(run) after argument i gave r; done holds the
\* values and the log of the arguments before it
runArgsNext(node, i, done, r, heap, fns, defs) ==
    IF ~r.ok THEN Ran(FALSE, <<>>, r.err, done.log \o r.log)
    ELSE runArgs(node, i + 1,
                 Ran(TRUE, Append(done.value, r.value), NoError, done.log \o r.log),
                 heap, fns, defs)

\* node.args.map(run) from index i
runArgs(node, i, done, heap, fns, defs) ==
    IF i >= Len(node.args) THEN done
    ELSE runArgsNext(node, i, done, run(node.args[i + 1], heap, fns, defs),
                     heap, fns, defs)

\* The value of an if whose two branches both ran, a and b being their outcomes.
eagerPick(cond, a, b) ==
    IF ~a.ok THEN After(cond.log, a)
    ELSE IF ~b.ok THEN After(cond.log \o a.log, b)
    ELSE Ran(TRUE, IF Truthy(cond.value) THEN a.value ELSE b.value, NoError,
             cond.log \o a.log \o b.log)

\* runIfBranch as it would be if both branches were run before choosing.
runIfBranchEager(node, cond, heap, fns, defs) ==
    IF ~cond.ok THEN cond
    ELSE eagerPick(cond, run(ArgNode(node, 1), heap, fns, defs),
                   run(ArgNode(node, 2), heap, fns, defs))

\* cond ? run(node.args[1]) : run(node.args[2]), cond being the outcome of
\* run(node.args[0])
runIfBranch(node, cond, heap, fns, defs) ==
    IF ~cond.ok THEN cond
    ELSE After(cond.log,
               run(ArgNode(node, IF Truthy(cond.value) THEN 1 ELSE 2), heap, fns, defs))

\* if: only the chosen branch is run
runIf(node, heap, fns, defs) ==
    runIfBranch(node, run(ArgNode(node, 0), heap, fns, defs), heap, fns, defs)

\* runIferrCatch as it would be without the catch.
runIferrNoCatch(node, val, heap, fns, defs) == val

\* try { return val } catch { return run(node.args[1]) }, val being the
\* outcome of run(node.args[0])
runIferrCatch(node, val, heap, fns, defs) ==
    IF val.ok THEN val
    ELSE After(val.log, run(ArgNode(node, 1), heap, fns, defs))

\* iferr: the second argument is run only when the first one throws
runIferr(node, heap, fns, defs) ==
    runIferrCatch(node, run(ArgNode(node, 0), heap, fns, defs), heap, fns, defs)

\* fn(...mapped), mapped being the outcome of node.args.map(run)
runApply(fn, mapped) ==
    IF ~mapped.ok THEN Ran(FALSE, Undefined, mapped.err, mapped.log)
    ELSE After(Append(mapped.log, CallEvent(fn, mapped.value)),
               Ran(Apply(fn, mapped.value).ok, Apply(fn, mapped.value).value,
                   Apply(fn, mapped.value).err, <<>>))

\* The check of fn after node.args.map(run) gave mapped.
runCheckedLate(node, fn, mapped) ==
    IF ~mapped.ok THEN Ran(FALSE, Undefined, mapped.err, mapped.log)
    ELSE IF ~Truthy(fn)
    THEN Ran(FALSE, Undefined, Error("Function {name} not found", -1, node.name),
             mapped.log)
    ELSE runApply(fn, mapped)

\* runLookedUp as it would be if the arguments were run before fn is checked.
runLookedUpArgsFirst(node, fn, heap, fns, defs) ==
    runCheckedLate(node, fn,
                   runArgs(node, 0, Ran(TRUE, <<>>, NoError, <<>>), heap, fns, defs))

\* if (!fn) throw ...; return fn(...node.args.map(run)), fn being what the
\* registry's get gave
runLookedUp(node, fn, heap, fns, defs) ==
    IF ~Truthy(fn)
    THEN Ran(FALSE, Undefined, Error("Function {name} not found", -1, node.name), <<>>)
    ELSE runApply(fn, runArgs(node, 0, Ran(TRUE, <<>>, NoError, <<>>), heap, fns, defs))

\* Any other name: the registry lookup, then the arguments, then the call
runCall(node, heap, fns, defs) ==
    runLookedUp(node, get(fns, defs, node.name), heap, fns, defs)

\* runNode as it would be if a function the host registered were looked up
\* before the special forms.
runNodeRegistryFirst(node, heap, fns, defs) ==
    IF node.type = "literal" THEN Ran(TRUE, node.value, NoError, <<>>)
    ELSE IF node.type = "variable"
    THEN IF ~HasProperty(heap, "ctx", node.name)
         THEN Ran(FALSE, Undefined, Error("Variable {name} not found", -1, node.name),
                  <<>>)
         ELSE Ran(TRUE, GetProperty(heap, "ctx", node.name), NoError, <<>>)
    ELSE IF node.name \in DOMAIN fns /\ ~fns[node.name].shared
    THEN runCall(node, heap, fns, defs)
    ELSE IF node.name = n_if THEN runIf(node, heap, fns, defs)
    ELSE IF node.name = n_iferr THEN runIferr(node, heap, fns, defs)
    ELSE runCall(node, heap, fns, defs)

\* The body of run for a node.
runNode(node, heap, fns, defs) ==
    IF node.type = "literal" THEN Ran(TRUE, node.value, NoError, <<>>)
    ELSE IF node.type = "variable"
    THEN IF ~HasProperty(heap, "ctx", node.name)
         THEN Ran(FALSE, Undefined, Error("Variable {name} not found", -1, node.name),
                  <<>>)
         ELSE Ran(TRUE, GetProperty(heap, "ctx", node.name), NoError, <<>>)
    ELSE IF node.name = n_if THEN runIf(node, heap, fns, defs)
    ELSE IF node.name = n_iferr THEN runIferr(node, heap, fns, defs)
    ELSE runCall(node, heap, fns, defs)

run(node, heap, fns, defs) == After(<<RunEvent(node)>>, runNode(node, heap, fns, defs))

\* return run(ast) on the merged context; the heap is what the call leaves
evaluateAst(ast, merged, fns, defs) ==
    [out |-> run(ast, merged, fns, defs), heap |-> merged]

\* The part of evaluate after this.parse gave parsed.
evaluateParsed(parsed, heap, fns, defs) ==
    IF ~parsed.ok THEN [out |-> Ran(FALSE, Undefined, parsed.err, <<>>), heap |-> heap]
    ELSE evaluateAst(parsed.node, MergeContext(heap), fns, defs)

\* The part of evaluate after this.tokenize gave lexed.
evaluateLexed(lexed, heap, fns, defs) ==
    IF ~lexed.ok THEN [out |-> Ran(FALSE, Undefined, lexed.err, <<>>), heap |-> heap]
    ELSE evaluateParsed(parse(lexed.tokens), heap, fns, defs)

\* evaluate(formula, localContext) on the heap of the call: the outcome of
\* run(ast) and the heap the call leaves behind
evaluate(formula, heap, fns, defs) == evaluateLexed(tokenize(formula), heap, fns, defs)

\* walk(node): the variable names in the order walk meets them
RECURSIVE walk(_)
RECURSIVE walkArgs(_, _)
walkArgs(args, i) ==
    IF i > Len(args) THEN <<>> ELSE walk(args[i]) \o walkArgs(args, i + 1)

walk(node) ==
    IF node.type = "literal" THEN <<>>
    ELSE IF node.type = "variable" THEN <<node.name>>
    ELSE walkArgs(node.args, 1)

\* Dedupe as it would be if deps were an array: every occurrence is kept.
DedupeKeepingAll(names) == names

\* Array.from(new Set(names)): first occurrences, in insertion order
RECURSIVE Dedupe(_)
Dedupe(names) ==
    IF names = <<>> THEN <<>>
    ELSE LET front == Dedupe(SubSeq(names, 1, Len(names) - 1))
             last  == names[Len(names)]
         IN  IF last \in Range(front) THEN front ELSE Append(front, last)

\* The part of getDependencies after this.tokenize gave lexed.
getDependenciesLexed(lexed) ==
    IF ~lexed.ok THEN [ok |-> FALSE, deps |-> <<>>, err |-> lexed.err]
    ELSE LET ast == parse(lexed.tokens) IN
         IF ~ast.ok THEN [ok |-> FALSE, deps |-> <<>>, err |-> ast.err]
         ELSE [ok |-> TRUE, deps |-> Dedupe(walk(ast.node)), err |-> NoError]

getDependencies(formula) == getDependenciesLexed(tokenize(formula))

(***************************************************************************)
(* Formula texts and contexts the host calls the evaluator with            *)
(***************************************************************************)
MaxChain == 4

MaxPrefix == 3

t_true == <<"t", "r", "u", "e">>

t_x == <<"x">>

t_y == <<"y">>

t_z == <<"z">>

\* A variable no context defines.
t_w == <<"w">>

t_0 == <<"0">>

t_1 == <<"1">>

\* A call of f, which is a function only once the host registers it.
t_f_y == <<"f", "(", "y", ")">>

\* A formula the host passes, kept with the parts it was put together from.
Input(kind, parts) == [kind |-> kind, parts |-> parts]

Spaced(op) == <<" ">> \o op \o <<" ">>

Grouped(text) == <<"(">> \o text \o <<")">>

\* The atoms of an equal-precedence chain: the numbers 2, 3, 4, ...
ChainValue(i) == i + 1

ChainAtom(i) == NatToString(ChainValue(i))

\* a1 op1 a2 op2 ... from atom i on
RECURSIVE ChainText(_, _)
ChainText(ops, i) ==
    IF i > Len(ops) THEN ChainAtom(i)
    ELSE ChainAtom(i) \o Spaced(ops[i]) \o ChainText(ops, i + 1)

\* The text of a sequence of prefix operators.
RECURSIVE Flatten(_)
Flatten(seqs) == IF seqs = <<>> THEN <<>> ELSE Head(seqs) \o Flatten(Tail(seqs))

\* The formula text of an input.
\* The texts from index i on, with ", " between them.
RECURSIVE CommaJoined(_, _)
CommaJoined(texts, i) ==
    IF i > Len(texts) THEN <<>>
    ELSE IF i = Len(texts) THEN texts[i]
    ELSE texts[i] \o <<",", " ">> \o CommaJoined(texts, i + 1)

TextOf(input) ==
    LET p == input.parts IN
    CASE input.kind = "if" ->
            p[1] \o <<"(">> \o p[2] \o <<",", " ">> \o p[3] \o <<",", " ">> \o p[4]
                 \o <<")">>
      [] input.kind = "iferr" ->
            p[1] \o <<"(">> \o p[2] \o <<",", " ">> \o p[3] \o <<")">>
      [] input.kind = "call" -> p[1] \o <<"(">> \o p[2] \o <<")">>
      [] input.kind \in {"variable", "text", "literal", "operand", "arguments",
                          "commas", "delimiter", "division"} -> p[1]
      [] input.kind = "binary" -> p[1] \o Spaced(p[2]) \o p[3] \o Spaced(p[4]) \o p[5]
      [] input.kind = "groupLeft" ->
            Grouped(p[1] \o Spaced(p[2]) \o p[3]) \o Spaced(p[4]) \o p[5]
      [] input.kind = "groupRight" ->
            p[1] \o Spaced(p[2]) \o Grouped(p[3] \o Spaced(p[4]) \o p[5])
      [] input.kind = "chain" -> ChainText(p, 1)
      [] input.kind = "unary" ->
            Flatten(p[1]) \o p[2] \o (IF p[3] = <<>> THEN <<>> ELSE Spaced(p[3]) \o p[4])
      [] input.kind = "lookup" -> p[1] \o <<"(">> \o CommaJoined(p[2], 1) \o <<")">>
      [] input.kind = "trailing" -> p[1] \o <<" ">> \o p[2]
      [] input.kind = "unclosed" -> p[1]
      [] input.kind = "lexerr" -> p[1] \o p[2] \o p[3]
      [] input.kind = "number" -> p[1] \o <<".">> \o p[2]
      [] input.kind = "fraction" -> p[1] \o <<".">> \o p[2]
      [] input.kind = "unterminated" -> p[1] \o <<"\"">> \o p[2]

IfNames == {<<"i", "f">>, <<"I", "F">>, <<"I", "f">>}

IferrNames == {<<"i", "f", "e", "r", "r">>, <<"I", "f", "E", "r", "r">>}

Conditions == {t_true, t_0, t_x, t_w}

Branches == {t_1, t_w, t_f_y}

IfInputs ==
    {Input("if", <<n_if, c, a, b>>) : c \in Conditions, a \in Branches, b \in Branches}
    \cup {Input("if", <<nm, t_x, t_w, t_f_y>>) : nm \in IfNames}

IferrInputs ==
    {Input("iferr", <<n_iferr, a, b>>) : a \in Branches \cup {t_x}, b \in Branches}
    \cup {Input("iferr", <<nm, t_w, t_1>>) : nm \in IferrNames}

VariableInputs ==
    {Input("variable", <<name>>) :
        name \in {t_x, t_y, t_z, t_w, <<"X">>,
                  <<"t", "o", "S", "t", "r", "i", "n", "g">>,
                  <<"c", "o", "n", "s", "t", "r", "u", "c", "t", "o", "r">>}}

\* The letter cases of one function name, as a call site may write it.
NameCasings ==
    {{<<"s", "u", "m">>, <<"S", "U", "M">>, <<"S", "u", "m">>}, {<<"f">>, <<"F">>}}

CallArguments == <<"1", ",", "2">>

CallInputs == {Input("call", <<nm, CallArguments>>) : nm \in UNION NameCasings}

TextInputs ==
    {Input("text", <<text>>) :
        text \in {<<"-", "x", " ", "+", " ", "1">>,
                  <<"2", " ", "+", " ", "3", " ", "*", " ", "4">>,
                  <<"(", "2", " ", "+", " ", "3", ")", " ", "*", " ", "4">>,
                  <<"(", "1", " ", "+", " ", "2">>,
                  <<"1", " ", "#", " ", "2">>}}

\* Formulas whose variables repeat, nest and sit beside calls and literals.
DependencyInputs ==
    {Input("text", <<text>>) :
        text \in {<<"s", "u", "m", "(", "x", ",", " ", "a", "v", "g", "(", "y", ",", " ", "x", ")", ")">>, <<"i", "f", "(", "a", ",", " ", "b", ",", " ", "c", ")">>, <<"i", "f", "e", "r", "r", "(", "x", ",", " ", "y", ")">>, <<"x", " ", "+", " ", "y", " ", "*", " ", "x">>, <<"4", "2">>, <<"s", "u", "m", "(", "1", ",", " ", "2", ")">>, <<"f", "(", "g", "(", "z", ")", ",", " ", "y", ",", " ", "z", ")">>, <<"i", "f", "(", "t", "r", "u", "e", ",", " ", "x", ",", " ", "y", ")", " ", "+", " ", "x">>, <<"-", "y", " ", "+", " ", "x", " ", "-", " ", "y">>, <<"\"", "x", "\"", " ", "+", " ", "y">>, <<"x", "(", "x", ")">>, <<"(", "b", " ", "+", " ", "a", ")", " ", "*", " ", "(", "a", " ", "+", " ", "b", ")">>}}

\* Calls of registered and of unknown functions with arguments that give a
\* value or throw.
LookupInputs ==
    {Input("lookup", <<name, args>>) :
        name \in {<<"s", "u", "m">>, <<"n", "o", "p", "e">>, <<"f">>, <<"F">>, <<"m", "e", "a", "n">>, <<"a", "v", "g">>},
        args \in {<<>>, <<t_x, t_1>>, <<t_w, t_1>>, <<t_1, t_w, t_x>>, <<t_f_y, t_x>>,
                  <<t_y, t_x, t_y>>}}

\* The formulas the host evaluates against its contexts and registry.
Formulas == IfInputs \cup IferrInputs \cup VariableInputs \cup CallInputs \cup TextInputs

BinaryOps == DOMAIN OP_PRECEDENCE

\* a op1 b op2 c, (a op1 b) op2 c and a op1 (b op2 c) over every pair of
\* binary operators
BinaryInputs ==
    {Input("binary", <<a, op1, b, op2, c>>) :
        a \in {t_x, t_1}, op1 \in BinaryOps, b \in {t_y, <<"\"", "s", "\"">>},
        op2 \in BinaryOps, c \in {t_z, <<"g", "(", "2", ")">>}}
    \cup {Input(kind, <<t_x, op1, t_y, op2, t_z>>) :
            kind \in {"groupLeft", "groupRight"}, op1 \in BinaryOps, op2 \in BinaryOps}

\* Every sequence of 1 to MaxChain - 1 binary operators of one precedence.
ChainInputs ==
    {Input("chain", ops) :
        ops \in UNION {[1..k -> {op \in BinaryOps : OP_PRECEDENCE[op] = OP_PRECEDENCE[first]}] :
                         k \in 1..(MaxChain - 1), first \in BinaryOps}}

PrefixOps == {<<"!">>, <<"-">>}

\* 1 to MaxPrefix prefix operators on an atom, alone or as the left operand
\* of a binary operator
UnaryInputs ==
    {Input("unary", <<prefix, atom, op, t_y>>) :
        prefix \in UNION {[1..k -> PrefixOps] : k \in 1..MaxPrefix},
        atom \in {t_x, <<"5">>, <<"(", "a", " ", "+", " ", "b", ")">>},
        op \in BinaryOps \cup {<<>>}}

ExampleInputs ==
    {Input("text", <<text>>) :
        text \in {<<"1", "0", " ", "-", " ", "3", " ", "-", " ", "2">>,
                  <<"2", "4", " ", "/", " ", "4", " ", "/", " ", "2">>,
                  <<"-", "-", "5">>}}

\* A complete expression followed by tokens that do not continue it.
TrailingInputs ==
    {Input("trailing", <<expr, rest>>) :
        expr \in {<<"1">>, <<"x">>, <<"(", "1", " ", "+", " ", "2", ")">>,
                  <<"f", "(", "1", ")">>, <<"1", " ", "+", " ", "2">>, <<"-", "x">>,
                      <<"\"", "s", "\"">>},
        rest \in {<<"2">>, <<"y">>, <<")">>, <<",">>, <<"\"", "s", "\"">>, <<"!">>,
                  <<")", " ", "+", " ", "1">>, <<"2", " ", "+", " ", "3">>,
                      <<"t", "r", "u", "e">>}}

\* Formulas in which a "(" has no ")" delimiter where its group or argument
\* list ends.
UnclosedInputs ==
    {Input("unclosed", <<text>>) :
        text \in {<<"(", "1", " ", "+", " ", "2">>, <<"(", "1", " ", "2", ")">>,
                  <<"f", "(", "1", ",", " ", "2">>, <<"f", "(">>, <<"(">>,
                      <<"(", "(", "1", ")">>, <<"f", "(", "(", "1", ")">>,
                  <<"(", "1", " ", "+", " ", "2", " ", ",">>,
                      <<"f", "(", "1", ",", " ", "(", "2">>,
                          <<"(", "1", " ", "\"", ")", "\"">>,
                              <<"f", "(", "1", " ", "\"", ")", "\"">>,
                                  <<"(", "x", " ", "\"", "s", "\"", ")">>}}

\* Texts with a character no token rule matches after a prefix that lexes.
UnexpectedCharInputs ==
    {Input("lexerr", <<prefix, <<bad>>, rest>>) :
        prefix \in {<<>>, <<"1", " ", "+", " ">>,
                    <<"s", "u", "m", "(", "x", ",", " ">>, <<"\"", "s", "\"", " ">>,
                        <<"x", " ">>},
        bad \in {"#", "@", "$", "~", "_"},
        rest \in {<<>>, <<" ", "+", " ", "2">>, <<"#">>, <<"x">>}}

\* A digit run followed by a "." that no digit follows, and numbers with a
\* fraction.
NumberInputs ==
    {Input("number", <<digits, after>>) :
        digits \in {<<"5">>, <<"1", "2">>},
        after \in {<<>>, <<" ">>, <<"x">>, <<" ", "+", " ", "1">>, <<".", "5">>, <<")">>}}
    \cup {Input("fraction", <<whole, digits>>) :
            whole \in {<<>>, <<"1">>, <<"2", "0">>}, digits \in {<<"5">>, <<"2", "5">>}}

\* Texts with a quote that no later quote closes, after a prefix that lexes.
UnterminatedInputs ==
    {Input("unterminated", <<prefix, body>>) :
        prefix \in {<<>>, <<"x", " ", "+", " ">>, <<"\"", "a", "\"", " ">>,
                    <<"f", "(">>, <<"1">>},
        body \in {<<>>, <<"a", "b", "c">>, <<"a", " ", "+", " ", "1", ")">>,
                  <<"s", ",", " ", "2">>}}

\* The texts the host tokenizes to see how they lex.
LexInputs == UnexpectedCharInputs \cup NumberInputs \cup UnterminatedInputs

\* One literal or name each, and strings and names that spell a boolean.
LiteralInputs ==
    {Input("literal", <<text>>) :
        text \in {<<"t", "r", "u", "e">>, <<"f", "a", "l", "s", "e">>, <<"T", "R", "U", "E">>, <<"T", "r", "u", "e">>, <<"\"", "t", "r", "u", "e", "\"">>, <<"\"", "f", "a", "l", "s", "e", "\"">>, <<"\"", "T", "R", "U", "E", "\"">>,
                  <<"\"", "x", "\"">>, <<"\"", "a", " ", "b", "\"">>, <<"\"", "\"">>, <<"x">>, <<"4", "2">>}}

\* Formulas with an operand, a group body or an argument missing.
MissingOperandInputs ==
    {Input("operand", <<text>>) :
        text \in {<<>>, <<"1", " ", "+">>, <<"1", " ", "+", " ", "*", " ", "2">>, <<"!">>, <<"-">>, <<"-", " ", "+", " ", "1">>, <<")">>, <<",">>, <<"(", ")">>, <<"(", ",", ")">>,
                  <<"(", "1", " ", "+", ")">>, <<"1", " ", "+", " ", ")">>, <<"f", "(", ",", ")">>, <<"f", "(", "1", " ", "+", ")">>, <<"f", "(", "!", ")">>, <<"s", "u", "m", "(", "1", ",", " ", ")">>, <<"2", " ", "*", " ", "(", ",", ")", " ", "+", " ", "1">>,
                  <<"1", " ", "+", " ", "2">>, <<"f", "(", ")">>, <<"(", "1", ")">>}}

\* Calls whose arguments are separated by one comma each.
SeparatedArgumentInputs ==
    {Input("arguments", <<text>>) :
        text \in {<<"f", "(", ")">>, <<"f", "(", "1", ")">>, <<"s", "u", "m", "(", "1", ",", " ", "2", ")">>, <<"f", "(", "1", ",", " ", "x", ",", " ", "\"", "a", "\"", ")">>, <<"f", "(", "1", " ", "+", " ", "2", ",", " ", "g", "(", "3", ")", ",", " ", "-", "4", ")">>,
                  <<"f", "(", "(", "1", ")", ",", " ", "2", ")">>}}

\* Calls with a comma missing between two arguments, or with a comma that
\* has no argument before or after it.
MisplacedCommaInputs ==
    {Input("commas", <<text>>) :
        text \in {<<"f", "(", "1", " ", "2", ")">>, <<"s", "u", "m", "(", "1", " ", "2", " ", "3", ")">>, <<"f", "(", "x", " ", "\"", "a", "\"", ")">>, <<"f", "(", "g", "(", "1", ")", " ", "2", ")">>, <<"f", "(", "1", ",", ")">>, <<"s", "u", "m", "(", "1", ",", " ", "2", ",", ")">>,
                  <<"f", "(", ",", "1", ")">>, <<"f", "(", ",", ")">>, <<"f", "(", "1", ",", ",", "2", ")">>, <<"f", "(", "1", " ", "2", ",", ")">>}}

\* Formulas with String tokens, among them strings whose text is a delimiter.
DelimiterStringInputs ==
    {Input("delimiter", <<text>>) :
        text \in {<<"c", "o", "n", "c", "a", "t", "(", "\"", "a", "\"", ",", " ", "\"", ")", "\"", ")">>, <<"c", "o", "n", "c", "a", "t", "(", "\"", "a", "\"", ",", " ", "\"", "b", "\"", ")">>, <<"f", "(", "\"", "(", "\"", ")">>, <<"f", "(", "\"", ")", "\"", ")">>, <<"f", "(", "\"", ",", "\"", ")">>,
                  <<"f", "(", "1", " ", "\"", ",", "\"", " ", "2", ")">>, <<"f", "(", "1", ",", " ", "\"", ",", "\"", ",", " ", "2", ")">>, <<"x", " ", "\"", "(", "\"">>, <<"x", " ", "\"", "(", "\"", " ", "1", ")">>, <<"x", " ", "\"", "a", "\"">>, <<"(", "\"", ")", "\"", ")">>,
                  <<"(", "\"", "(", "\"", ")">>, <<"(", "1", " ", "\"", ")", "\"">>, <<"(", "\"", ",", "\"", ")">>, <<"\"", "(", "\"", " ", "+", " ", "\"", ")", "\"">>, <<"u", "p", "p", "e", "r", "(", "\"", ",", "\"", ")", " ", "+", " ", "\"", ")", "\"">>}}

\* iferr around a division by zero, with the text of the fallback.
DivisionInputs ==
    {Input("division", <<<<"i", "f", "e", "r", "r", "(", "1", "/", "0", ",", " ", "0", ")">>, <<"0">>>>), Input("division", <<<<"i", "f", "e", "r", "r", "(", "0", "/", "0", ",", " ", "0", ")">>, <<"0">>>>),
     Input("division", <<<<"i", "f", "e", "r", "r", "(", "-", "1", "/", "0", ",", " ", "0", ")">>, <<"0">>>>), Input("division", <<<<"i", "f", "e", "r", "r", "(", "1", " ", "/", " ", "0", ",", " ", "2", ")">>, <<"2">>>>),
     Input("division", <<<<"I", "F", "E", "R", "R", "(", "3", "/", "(", "1", " ", "-", " ", "1", ")", ",", " ", "7", ")">>, <<"7">>>>)}

\* The formulas the host tokenizes and parses to see their shape.
ParseInputs ==
    BinaryInputs \cup ChainInputs \cup UnaryInputs \cup ExampleInputs
        \cup LiteralInputs \cup MissingOperandInputs
        \cup SeparatedArgumentInputs \cup MisplacedCommaInputs
        \cup DelimiterStringInputs \cup DivisionInputs
        \cup TrailingInputs \cup UnclosedInputs \cup LexInputs

\* Those of them it also evaluates: the ones whose operands are all numbers.
NumericInputs == ChainInputs \cup ExampleInputs

\* The formulas of them it evaluates: the numeric ones, the single literals
\* and the divisions.
EvaluatedInputs == NumericInputs \cup LiteralInputs \cup DivisionInputs

\* The texts evaluators of the process tokenized before the call in progress.
EarlierTexts == {<<>>, <<"#", " ", "x", " ", "\"", "a", "\"", " ", "1">>}

\* The states those calls left the regexes of TOKEN_RULES in.
LeftoverRegexes == {tokenizeWith(text, FreshRegexes).regexes : text \in EarlierTexts}

\* The objects a host constructs the evaluator with.
GlobalContexts == {<<>>, (t_x :> Num(1, 1)) @@ (t_y :> Num(2, 1))}

\* The objects a host passes to evaluate as localContext.
LocalContexts == {<<>>, (t_x :> Num(0, 1)) @@ (t_z :> Num(3, 1))}

\* The names a host asks a registry about.
RegistryNames ==
    {<<"s", "u", "m">>, <<"S", "U", "M">>, <<"a", "v", "g">>, <<"_", "_", "a", "d", "d">>, <<"t", "r", "i", "p", "l", "e">>, <<"T", "r", "i", "p", "l", "e">>, <<"_", "_", "z", "a", "p">>, <<"n", "o", "p", "e">>, <<"c", "o", "n", "s", "t", "r", "u", "c", "t", "o", "r">>}

\* The (name, fn, description) triples a host passes to register.
RegistryRegisterCalls ==
    {<<Str(<<"t", "r", "i", "p", "l", "e">>), seven, "Triples a number">>, <<Str(<<"T", "r", "i", "p", "l", "e">>), boom, "">>,
     <<Str(<<"S", "U", "M">>), seven, "">>, <<Str(<<"_", "_", "z", "a", "p">>), seven, "">>,
     <<Num(5, 1), seven, "">>, <<Str(<<>>), seven, "">>,
     <<Str(<<"t", "r", "i", "p", "l", "e">>), Num(3, 1), "">>}

\* What a host does to the object getAll returned: delete all[key],
\* all[key] = { fn, description }, all[key].fn = fn,
\* all[key].description = description.
SnapshotEdit(kind, key, fn, description) ==
    [kind |-> kind, key |-> key, fn |-> fn, description |-> description]

SnapshotEdits ==
    {SnapshotEdit(kind, key, boom, "changed") :
        kind \in {"delete", "add", "setFn", "setDescription"},
        key \in {<<"s", "u", "m">>, <<"t", "r", "i", "p", "l", "e">>, <<"e", "x", "t", "r", "a">>}}

\* The (name, fn) pairs a host passes to registerFunction.
RegisterCalls ==
    {<<Str(<<"I", "F">>), boom>>, <<Str(<<"I", "f", "E", "r", "r">>), boom>>,
     <<Str(<<"S", "U", "M">>), seven>>,
     <<Str(<<"f">>), seven>>, <<Str(<<"F">>), boom>>,
     <<Num(5, 1), seven>>, <<Str(<<>>), seven>>, <<Str(<<"g">>), Num(5, 1)>>,
     <<Num(5, 1), Num(5, 1)>>}

\* The (name, fn) pairs of a host that registers functions to call them,
\* built-in names among them.
CallRegisterCalls ==
    {<<Str(<<"f">>), seven>>, <<Str(<<"F">>), boom>>, <<Str(<<"m", "e", "a", "n">>), seven>>,
     <<Str(<<"S", "U", "M">>), boom>>}

(***************************************************************************)
(* The evaluator instance and its host                                     *)
(***************************************************************************)
\* A call in progress: the operation, its arguments, and for tokenize and the
\* parse after it the regexes of TOKEN_RULES as tokenize found them.
Call(op, input, formula, local, name, fn) ==
    [op |-> op, input |-> input, formula |-> formula, local |-> local,
     name |-> name, fn |-> fn, regexes |-> FreshRegexes]

NoInput == Input("none", <<>>)

NoCall == Call("none", NoInput, <<>>, <<>>, Undefined, Undefined)

\* What a call gave back: ok or the Error thrown, and per operation its value
\* and log, its tokens, its AST, its names, the caller's local object after
\* it, the names list gave, the entries describe gave, the object getAll gave.
Result(ok, err, value, log, tokens, node, deps, localAfter, names, described, all) ==
    [ok |-> ok, err |-> err, value |-> value, log |-> log, tokens |-> tokens,
     node |-> node, deps |-> deps, localAfter |-> localAfter, list |-> names,
     described |-> described, all |-> all]

NoResult ==
    Result(TRUE, NoError, Undefined, <<>>, <<>>, LiteralNode(Undefined), <<>>, <<>>,
           <<>>, <<>>, NoObject)

\* new FormulaEvaluator(globalContext)
\* An instance the host holds besides the one it works on: the functions
\* object of its registry's closure, the order of that object's keys, and its
\* context.
Instance(fns, order, globalContext) ==
    [functions |-> fns, keyOrder |-> order, context |-> globalContext]

\* The other instance as it would be if createFunctionRegistry kept one
\* functions object for all the registries it returns.
OtherClosureShared(instance, fns, order) ==
    [instance EXCEPT !.functions = fns, !.keyOrder = order]

\* const functions = { ...builtinFunctions }: every createFunctionRegistry call
\* makes the object its methods close over, so when one registry has written
\* fns in the given key order into its own, another instance's is as it was.
OtherClosure(instance, fns, order) == instance

Init ==
    /\ builtinFunctions = builtinFunctionDefs
    /\ functions = createFunctionRegistry
    /\ keyOrder = BuiltinNameSeq
    /\ context \in GlobalContexts
    /\ pc = "idle"
    /\ call = NoCall
    /\ result = NoResult
    /\ other = Instance(createFunctionRegistry, BuiltinNameSeq, <<>>)

\* evaluator.registerFunction(name, fn)
RegisterFunction(name, fn) ==
    /\ pc = "idle"
    /\ LET r == register(functions, name, fn, "") IN
        /\ functions' = r.functions
        /\ keyOrder' = IF r.ok THEN KeysAfterSet(keyOrder, toLowerCase(name.s))
                        ELSE keyOrder
        /\ result' = [NoResult EXCEPT !.ok = r.ok, !.err = r.err,
                                      !.value = IF r.ok THEN This ELSE Undefined]
    /\ call' = Call("registerFunction", NoInput, <<>>, <<>>, name, fn)
    /\ pc' = "returned"
    /\ other' = OtherClosure(other, functions', keyOrder')
    /\ UNCHANGED <<builtinFunctions, context>>

\* evaluator.evaluate(formula, localContext)
Evaluate(input, localContext, regexes) ==
    /\ pc = "idle"
    /\ LET r == evaluateLexed(tokenizeWith(TextOf(input), regexes),
                              HeapOf(context, localContext), functions,
                              builtinFunctions)
       IN  /\ result' = [NoResult EXCEPT !.ok = r.out.ok, !.err = r.out.err,
                                         !.value = r.out.value, !.log = r.out.log,
                                         !.localAfter = r.heap.local.own]
           /\ context' = r.heap.global.own
    /\ call' = Call("evaluate", input, TextOf(input), localContext, Undefined, Undefined)
    /\ pc' = "returned"
    /\ UNCHANGED <<other, builtinFunctions, functions, keyOrder>>

\* evaluator.getDependencies(formula)
GetDependencies(input, regexes) ==
    /\ pc = "idle"
    /\ LET r == getDependenciesLexed(tokenizeWith(TextOf(input), regexes)) IN
        result' = [NoResult EXCEPT !.ok = r.ok, !.err = r.err, !.deps = r.deps]
    /\ call' = Call("getDependencies", input, TextOf(input), <<>>, Undefined, Undefined)
    /\ pc' = "returned"
    /\ UNCHANGED <<other, builtinFunctions, functions, keyOrder, context>>

\* evaluator.tokenize(formula)
Tokenize(input, regexes) ==
    /\ pc = "idle"
    /\ LET r == tokenizeWith(TextOf(input), regexes) IN
        result' = [NoResult EXCEPT !.ok = r.ok, !.err = r.err, !.tokens = r.tokens]
    /\ call' = [Call("tokenize", input, TextOf(input), <<>>, Undefined, Undefined)
                    EXCEPT !.regexes = regexes]
    /\ pc' = "returned"
    /\ UNCHANGED <<other, builtinFunctions, functions, keyOrder, context>>

\* evaluator.parse(tokens), on the tokens the tokenize call before it gave
Parse ==
    /\ pc = "returned"
    /\ call.op = "tokenize"
    /\ result.ok
    /\ LET r == parse(result.tokens) IN
        result' = [NoResult EXCEPT !.ok = r.ok, !.err = r.err, !.node = r.node,
                                   !.tokens = result.tokens]
    /\ call' = [call EXCEPT !.op = "parse"]
    /\ UNCHANGED <<other, builtinFunctions, functions, keyOrder, context, pc>>

\* registry.register(name, fn, description)
Register(name, fn, description) ==
    /\ pc = "idle"
    /\ LET r == register(functions, name, fn, description) IN
        /\ functions' = r.functions
        /\ keyOrder' = IF r.ok THEN KeysAfterSet(keyOrder, toLowerCase(name.s))
                        ELSE keyOrder
        /\ result' = [NoResult EXCEPT !.ok = r.ok, !.err = r.err]
    /\ call' = Call("register", NoInput, <<>>, <<>>, name, fn)
    /\ pc' = "returned"
    /\ other' = OtherClosure(other, functions', keyOrder')
    /\ UNCHANGED <<builtinFunctions, context>>

\* registry.unregister(name)
Unregister(name) ==
    /\ pc = "idle"
    /\ LET r == unregister(functions, builtinFunctions, name) IN
        /\ functions' = r.functions
        /\ keyOrder' = IF r.ok THEN KeysAfterDelete(keyOrder, toLowerCase(name.s))
                        ELSE keyOrder
        /\ result' = [NoResult EXCEPT !.ok = r.ok, !.err = r.err, !.value = r.value]
    /\ call' = Call("unregister", NoInput, <<>>, <<>>, name, Undefined)
    /\ pc' = "returned"
    /\ other' = OtherClosure(other, functions', keyOrder')
    /\ UNCHANGED <<builtinFunctions, context>>

\* registry.has(name)
Has(name) ==
    /\ pc = "idle"
    /\ result' = [NoResult EXCEPT !.value = Bool(has(functions, name))]
    /\ call' = Call("has", NoInput, <<>>, <<>>, Str(name), Undefined)
    /\ pc' = "returned"
    /\ UNCHANGED <<other, builtinFunctions, functions, keyOrder, context>>

\* registry.get(name)
Get(name) ==
    /\ pc = "idle"
    /\ result' = [NoResult EXCEPT !.value = get(functions, builtinFunctions, name)]
    /\ call' = Call("get", NoInput, <<>>, <<>>, Str(name), Undefined)
    /\ pc' = "returned"
    /\ UNCHANGED <<other, builtinFunctions, functions, keyOrder, context>>

\* registry.list(), which evaluator.listFunctions() returns
List ==
    /\ pc = "idle"
    /\ result' = [NoResult EXCEPT !.list = list(keyOrder)]
    /\ call' = Call("list", NoInput, <<>>, <<>>, Undefined, Undefined)
    /\ pc' = "returned"
    /\ UNCHANGED <<other, builtinFunctions, functions, keyOrder, context>>

\* registry.describe(), which evaluator.describeFunctions() returns
Describe ==
    /\ pc = "idle"
    /\ result' = [NoResult EXCEPT
                     !.described = describe(functions, builtinFunctions, keyOrder)]
    /\ call' = Call("describe", NoInput, <<>>, <<>>, Undefined, Undefined)
    /\ pc' = "returned"
    /\ UNCHANGED <<other, builtinFunctions, functions, keyOrder, context>>

\* registry.getAll()
GetAll ==
    /\ pc = "idle"
    /\ result' = [NoResult EXCEPT !.all = getAll(functions, keyOrder)]
    /\ call' = Call("getAll", NoInput, <<>>, <<>>, Undefined, Undefined)
    /\ pc' = "returned"
    /\ UNCHANGED <<other, builtinFunctions, functions, keyOrder, context>>

\* The FunctionDef object def with one property assigned.
DefAssigned(def, edit) ==
    IF edit.kind = "setFn" THEN [def EXCEPT !.fn = edit.fn]
    ELSE [def EXCEPT !.description = edit.description]

\* The host edits the object getAll just returned. The object is the host's,
\* the FunctionDef objects in it are the ones the registry and
\* builtinFunctions hold; fn of avg and not has a getter only and is left alone.
MutateSnapshot(edit) ==
    /\ pc = "returned"
    /\ call.op = "getAll"
    /\ LET all == result.all
           entry == all.entries[edit.key]
       IN  CASE edit.kind = "delete" ->
                  /\ result' = [result EXCEPT !.all =
                        OrderedObject(KeysAfterDelete(all.keys, edit.key),
                            [k \in DOMAIN all.entries \ {edit.key} |-> all.entries[k]])]
                  /\ UNCHANGED <<builtinFunctions, functions>>
             [] edit.kind = "add" ->
                  /\ result' = [result EXCEPT !.all =
                        OrderedObject(KeysAfterSet(all.keys, edit.key),
                            (edit.key :> OwnEntry(edit.fn, edit.description))
                                @@ all.entries)]
                  /\ UNCHANGED <<builtinFunctions, functions>>
             [] edit.kind \in {"setFn", "setDescription"} ->
                  /\ edit.key \in DOMAIN all.entries
                  /\ IF entry.shared
                     THEN /\ edit.kind = "setFn" => BuiltinAlias(entry.key) = <<>>
                          /\ builtinFunctions' =
                                [builtinFunctions EXCEPT ![entry.key] = DefAssigned(@, edit)]
                          /\ UNCHANGED <<functions, result>>
                     ELSE /\ functions' =
                                [functions EXCEPT ![edit.key].def = DefAssigned(@, edit)]
                          /\ result' = [result EXCEPT !.all.entries[edit.key].def =
                                                        DefAssigned(@, edit)]
                          /\ UNCHANGED builtinFunctions
    /\ call' = [call EXCEPT !.op = "mutate", !.input = Input(edit.kind, <<edit.key>>)]
    /\ UNCHANGED <<other, keyOrder, context, pc>>

\* The host takes the outcome of the call and goes on.
Return ==
    /\ pc = "returned"
    /\ pc' = "idle"
    /\ call' = NoCall
    /\ result' = NoResult
    /\ UNCHANGED <<other, builtinFunctions, functions, keyOrder, context>>

Next ==
    \/ \E r \in RegisterCalls : RegisterFunction(r[1], r[2])
    \/ \E input \in Formulas, localContext \in LocalContexts,
          regexes \in LeftoverRegexes :
          Evaluate(input, localContext, regexes)
    \/ \E input \in Formulas \cup DependencyInputs, regexes \in LeftoverRegexes :
          GetDependencies(input, regexes)
    \/ Return

Spec == Init /\ [][Next]_vars

\* A host that only looks at how formulas lex, parse and evaluate, with the
\* built-in registry and an empty global context.
InitParse == Init /\ context = <<>>

NextParse ==
    \/ \E input \in ParseInputs, regexes \in LeftoverRegexes : Tokenize(input, regexes)
    \/ Parse
    \/ \E input \in EvaluatedInputs, regexes \in LeftoverRegexes :
          Evaluate(input, <<>>, regexes)
    \/ Return

SpecParse == InitParse /\ [][NextParse]_vars

\* The host turns to its other instance: what it calls from now on acts on
\* that one.
Switch ==
    /\ pc = "idle"
    /\ functions' = other.functions
    /\ keyOrder' = other.keyOrder
    /\ context' = other.context
    /\ other' = Instance(functions, keyOrder, context)
    /\ UNCHANGED <<builtinFunctions, pc, call, result>>

\* A host that registers functions and calls them, and the built-ins, by name.
NextCalls ==
    \/ \E r \in CallRegisterCalls : RegisterFunction(r[1], r[2])
    \/ \E input \in LookupInputs, localContext \in LocalContexts,
          regexes \in LeftoverRegexes :
          Evaluate(input, localContext, regexes)
    \/ Return

SpecCalls == Init /\ [][NextCalls]_vars

\* What a host of two instances registers, by register and by registerFunction,
\* and unregisters.
InstanceRegisterCalls ==
    {<<Str(<<"t", "r", "i", "p", "l", "e">>), seven, "Triples a number">>, <<Str(<<"S", "U", "M">>), boom, "">>}

InstanceRegisterFunctionCalls == {<<Str(<<"f">>), seven>>, <<Str(<<"m", "e", "a", "n">>), seven>>}

InstanceNames == {<<"t", "r", "i", "p", "l", "e">>, <<"f">>, <<"s", "u", "m">>}

\* A host with two instances that registers and unregisters on either.
NextInstances ==
    \/ \E r \in InstanceRegisterCalls : Register(r[1], r[2], r[3])
    \/ \E r \in InstanceRegisterFunctionCalls : RegisterFunction(r[1], r[2])
    \/ \E name \in InstanceNames : Unregister(Str(name))
    \/ Switch
    \/ Return

SpecInstances == Init /\ [][NextInstances]_vars

\* A host that works on the registry: createFunctionRegistry() and calls of
\* its methods.
InitRegistry == Init /\ context = <<>>

NextRegistry ==
    \/ \E r \in RegistryRegisterCalls : Register(r[1], r[2], r[3])
    \/ \E name \in RegistryNames : Unregister(Str(name))
    \/ \E name \in RegistryNames : Has(name)
    \/ \E name \in RegistryNames : Get(name)
    \/ List
    \/ Describe
    \/ GetAll
    \/ Return

SpecRegistry == InitRegistry /\ [][NextRegistry]_vars

\* A host that also edits the objects getAll returns.
NextSnapshot ==
    \/ NextRegistry
    \/ \E edit \in SnapshotEdits : MutateSnapshot(edit)

SpecSnapshot == InitRegistry /\ [][NextSnapshot]_vars

(***************************************************************************)
(* Properties                                                              *)
(***************************************************************************)
\* The call op has returned and the host has not yet gone on.
Called(op) == pc = "returned" /\ call.op = op

\* evaluate(text, call.local) on the instance as the call in progress found it.
EvaluateAlone(text) ==
    evaluate(text, HeapOf(context, call.local), functions, builtinFunctions).out

\* The outcome of a call as the host sees it, without the log.
SameOutcome(r) == result.ok = r.ok /\ result.value = r.value /\ result.err = r.err

\* What ran below the root node of the formula evaluated.
RanBelowRoot == Tail(result.log)

\* C1: if(c, a, b), under any letter case of the name, first evaluates c; when
\* c throws the call throws that error; otherwise the call gives exactly what
\* evaluating the branch c's truthiness selects gives (its value or its
\* error), and nothing of the other branch is evaluated: what ran is what ran
\* for c followed by what ran for the selected branch.
IfEvaluatesOnlyChosenBranch ==
    (Called("evaluate") /\ call.input.kind = "if") =>
        LET c == EvaluateAlone(call.input.parts[2])
            chosen == call.input.parts[IF Truthy(c.value) THEN 3 ELSE 4]
        IN  IF ~c.ok THEN SameOutcome(c) /\ RanBelowRoot = c.log
            ELSE /\ SameOutcome(EvaluateAlone(chosen))
                 /\ RanBelowRoot = c.log \o EvaluateAlone(chosen).log

\* IF(x, w, f(y)) with x falsy gave 7: the branch with the unknown variable w
\* was skipped and f was called.
IfSkippedThrowingBranch ==
    /\ Called("evaluate")
    /\ call.input = Input("if", <<<<"I", "F">>, t_x, t_w, t_f_y>>)
    /\ result.ok
    /\ result.value = Num(7, 1)

\* C2: iferr(a, b) evaluates a; when a gives a value the call gives that value
\* and b is not evaluated; when a throws, the call gives exactly what
\* evaluating b gives, whatever a threw.
IferrFallsBackOnlyOnError ==
    (Called("evaluate") /\ call.input.kind = "iferr") =>
        LET a == EvaluateAlone(call.input.parts[2])
            b == EvaluateAlone(call.input.parts[3])
        IN  IF a.ok THEN SameOutcome(a) /\ RanBelowRoot = a.log
            ELSE SameOutcome(b) /\ RanBelowRoot = a.log \o b.log

\* iferr(f(y), 1) gave 1 after the call of f threw.
IferrRecoveredFromThrowingCall ==
    /\ Called("evaluate")
    /\ call.input = Input("iferr", <<n_iferr, t_f_y, t_1>>)
    /\ result.ok
    /\ result.value = Num(1, 1)
    /\ \E i \in 1..Len(result.log) :
          result.log[i].ev = "call" /\ result.log[i].fn = boom

\* The AST of an operand written alone.
OperandNode(text) == parse(tokenize(text).tokens).node

\* The call node of a binary operator on two operand nodes.
BinaryNode(op, left, right) == FunctionNode(OP_MAP[op], <<left, right>>)

\* (a op1 b) op2 c
LeftNested(p) ==
    BinaryNode(p[4], BinaryNode(p[2], OperandNode(p[1]), OperandNode(p[3])),
               OperandNode(p[5]))

\* a op1 (b op2 c)
RightNested(p) ==
    BinaryNode(p[2], OperandNode(p[1]),
               BinaryNode(p[4], OperandNode(p[3]), OperandNode(p[5])))

\* C3: a op1 b op2 c parses as a op1 (b op2 c) when op2 binds tighter than
\* op1 and as (a op1 b) op2 c when op1 binds tighter than op2, the levels
\* being from tightest: * /, + -, > < >= <=, == !=, &, |; with parentheses
\* the parenthesised pair is the operand whatever the two operators are.
PrecedenceGroupsOperands ==
    (Called("parse") /\ call.input.kind \in {"binary", "groupLeft", "groupRight"}) =>
        LET p == call.input.parts
            prec1 == OP_PRECEDENCE[p[2]]
            prec2 == OP_PRECEDENCE[p[4]]
        IN  /\ result.ok
            /\ (call.input.kind = "binary" /\ prec2 > prec1) =>
                    result.node = RightNested(p)
            /\ (call.input.kind = "binary" /\ prec2 < prec1) =>
                    result.node = LeftNested(p)
            /\ call.input.kind = "groupLeft" => result.node = LeftNested(p)
            /\ call.input.kind = "groupRight" => result.node = RightNested(p)

\* 1 | "s" * g(2) was parsed: the looser operator came out on top, with the
\* product as its right operand.
LooserOperatorOnTop ==
    /\ Called("parse")
    /\ call.input = Input("binary", <<t_1, <<"|">>, <<"\"", "s", "\"">>, <<"*">>,
                                      <<"g", "(", "2", ")">>>>)
    /\ result.ok
    /\ result.node.name = OP_MAP[<<"|">>]
    /\ result.node.args[2].name = OP_MAP[<<"*">>]

\* The left fold of the first k operators of a chain over its atoms.
RECURSIVE LeftFold(_, _)
LeftFold(ops, k) ==
    IF k = 0 THEN LiteralNode(Num(ChainValue(1), 1))
    ELSE BinaryNode(ops[k], LeftFold(ops, k - 1), LiteralNode(Num(ChainValue(k + 1), 1)))

\* C4: operators of one precedence level group from the left: a chain
\* a1 op1 a2 op2 ... parses as ((a1 op1 a2) op2 a3) ..., a op1 b op2 c with
\* op1 and op2 of one level as (a op1 b) op2 c, and 10 - 3 - 2 evaluates to 5
\* and 24 / 4 / 2 to 3.
EqualPrecedenceGroupsLeft ==
    /\ (Called("parse") /\ call.input.kind = "chain") =>
          result.ok /\ result.node = LeftFold(call.input.parts, Len(call.input.parts))
    /\ (/\ Called("parse")
        /\ call.input.kind = "binary"
        /\ OP_PRECEDENCE[call.input.parts[2]] = OP_PRECEDENCE[call.input.parts[4]]) =>
          result.ok /\ result.node = LeftNested(call.input.parts)
    /\ (Called("evaluate") /\ call.input = Input("text",
            <<<<"1", "0", " ", "-", " ", "3", " ", "-", " ", "2">>>>)) =>
          result.ok /\ result.value = Num(5, 1)
    /\ (Called("evaluate") /\ call.input = Input("text",
            <<<<"2", "4", " ", "/", " ", "4", " ", "/", " ", "2">>>>)) =>
          result.ok /\ result.value = Num(3, 1)

\* 2 - 3 + 4 - 5 was parsed with its first subtraction innermost.
ChainParsedLeftFirst ==
    /\ Called("parse")
    /\ call.input = Input("chain", <<<<"-">>, <<"+">>, <<"-">>>>)
    /\ result.ok
    /\ result.node.name = OP_MAP[<<"-">>]
    /\ result.node.args[1].name = OP_MAP[<<"+">>]
    /\ result.node.args[1].args[1].name = OP_MAP[<<"-">>]
    /\ result.node.args[1].args[1].args[1] = LiteralNode(Num(2, 1))

\* The prefix operators from the i-th on, applied around node.
RECURSIVE Prefixed(_, _, _)
Prefixed(prefix, i, node) ==
    IF i > Len(prefix) THEN node
    ELSE FunctionNode(IF prefix[i] = <<"!">> THEN NOT_NAME ELSE NEG_NAME,
                      <<Prefixed(prefix, i + 1, node)>>)

\* C5: prefix ! and - apply to the single operand right after them, another
\* prefix operator included, before any binary operator: -x + y is
\* (-x) + y, !a & b is (!a) & b, and --5 evaluates to 5.
PrefixBindsTightest ==
    /\ (Called("parse") /\ call.input.kind = "unary") =>
          LET p == call.input.parts
              operand == Prefixed(p[1], 1, OperandNode(p[2]))
          IN  /\ result.ok
              /\ result.node = IF p[3] = <<>> THEN operand
                               ELSE BinaryNode(p[3], operand, OperandNode(p[4]))
    /\ (Called("evaluate") /\ call.formula = <<"-", "-", "5">>) =>
          result.ok /\ result.value = Num(5, 1)

\* -!x * y was parsed with the product on top of the negation.
PrefixUnderBinary ==
    /\ Called("parse")
    /\ call.input = Input("unary", <<<<<<"-">>, <<"!">>>>, t_x, <<"*">>, t_y>>)
    /\ result.ok
    /\ result.node.name = OP_MAP[<<"*">>]
    /\ result.node.args[1].name = NEG_NAME
    /\ result.node.args[1].args[1].name = NOT_NAME

\* The name a variable formula consists of.
VariableName == call.input.parts[1]

\* C6: evaluating a variable that neither the global nor the local context
\* defines throws Variable "{name}" not found and never gives a value.
UnknownVariableThrows ==
    (/\ Called("evaluate")
     /\ call.input.kind = "variable"
     /\ VariableName \notin DOMAIN context
     /\ VariableName \notin DOMAIN call.local) =>
        /\ ~result.ok
        /\ result.err = Error("Variable {name} not found", -1, VariableName)

EvaluateLeavesInstanceUnchanged ==
    [][(pc = "idle" /\ call'.op \in {"evaluate", "getDependencies"}) =>
          /\ context' = context
          /\ functions' = functions
          /\ builtinFunctions' = builtinFunctions
          /\ call'.op = "evaluate" => result'.localAfter = call'.local]_vars

\* An evaluate call returned whose local context defines a name the global
\* one lacks and redefines one it has.
EvaluatedWithOverridingLocal ==
    /\ Called("evaluate")
    /\ result.ok
    /\ \E k \in DOMAIN call.local : k \notin DOMAIN context
    /\ \E k \in DOMAIN call.local : k \in DOMAIN context /\ context[k] /= call.local[k]
    /\ result.localAfter = call.local

\* nm(1, 2) on a registry: the function it ends up calling, and its outcome.
CallOf(nm, fns, defs) ==
    evaluate(nm \o <<"(">> \o CallArguments \o <<")">>, HeapOf(<<>>, <<>>), fns, defs).out

HasCallEvent(r) == \E i \in 1..Len(r.log) : r.log[i].ev = "call"

\* The function nm(1, 2) calls, undefined when it calls none.
FunctionCalledBy(nm, fns, defs) ==
    IF HasCallEvent(CallOf(nm, fns, defs))
    THEN CallOf(nm, fns, defs).log[Len(CallOf(nm, fns, defs).log)].fn
    ELSE Undefined

\* Two casings of one name give the same outcome at a call site.
CasingsAgree(fns, defs) ==
    \A casings \in NameCasings : \A nm1, nm2 \in casings :
        /\ CallOf(nm1, fns, defs).ok = CallOf(nm2, fns, defs).ok
        /\ CallOf(nm1, fns, defs).value = CallOf(nm2, fns, defs).value
        /\ CallOf(nm1, fns, defs).err = CallOf(nm2, fns, defs).err

NeverRegisteredSpecialForms(fns) ==
    [k \in DOMAIN fns |->
        IF k \in {n_if, n_iferr} THEN createFunctionRegistry[k] ELSE fns[k]]

\* C10: what the host registers under if or iferr, in any letter case, never
\* changes how a formula using if or iferr evaluates: the call gives what it
\* gives on a registry where nothing was registered under those names.
SpecialFormsIgnoreRegistry ==
    (Called("evaluate") /\ call.input.kind \in {"if", "iferr"}) =>
        LET r == evaluate(call.formula, HeapOf(context, call.local),
                          NeverRegisteredSpecialForms(functions), builtinFunctions).out
        IN  SameOutcome(r) /\ result.log = r.log

\* if(true, 1, w) gave 1 although the host had registered a throwing
\* function as IF.
IfEvaluatedAfterRegisteringIf ==
    /\ Called("evaluate")
    /\ call.input = Input("if", <<n_if, t_true, t_1, t_w>>)
    /\ ~functions[n_if].shared
    /\ result.ok
    /\ result.value = Num(1, 1)

\* The text of the first token of a text.
FirstTokenText(text) == tokenize(text).tokens[1].value

\* C11: when parse has a complete expression and tokens are left over it
\* throws Unexpected token: {text} with the text of the first token left
\* over; whenever parse returns an AST its cursor is past the last token.
LeftoverTokensThrow ==
    /\ (Called("parse") /\ call.input.kind = "trailing") =>
          /\ ~result.ok
          /\ result.err = Error("Unexpected token: {text}", -1,
                                FirstTokenText(call.input.parts[2]))
    /\ (Called("parse") /\ result.ok) =>
          parseExpression(result.tokens, 0, 0).pos >= Len(result.tokens)

\* parse of the tokens of (1 + 2) ) + 1 threw Unexpected token: )
ExtraParenthesisRejected ==
    /\ Called("parse")
    /\ call.input = Input("trailing", <<<<"(", "1", " ", "+", " ", "2", ")">>, <<")", " ", "+", " ", "1">>>>)
    /\ ~result.ok
    /\ result.err = Error("Unexpected token: {text}", -1, <<")">>)

\* C12: when the tokens end, or a token other than a ")" delimiter stands,
\* where the ")" of a group or of an argument list is required, parse throws
\* Missing closing parenthesis.
UnclosedParenthesisThrows ==
    (Called("parse") /\ call.input.kind = "unclosed") =>
        ~result.ok /\ result.err = MissingParen

\* The error tokenize throws for a character no rule matches at offset.
UnexpectedCharacter(offset, char) ==
    Error("Unexpected character at {pos}: {char}", offset, <<char>>)

\* C13: when no rule matches at a position, tokenize throws Unexpected
\* character at {offset}: {char} for the first such position and the
\* character there, and gives no tokens, not even those before it.
UnmatchedCharacterThrows ==
    (Called("tokenize") /\ call.input.kind = "lexerr") =>
        LET p == call.input.parts IN
        /\ tokenize(p[1]).ok
        /\ ~result.ok
        /\ result.err = UnexpectedCharacter(Len(p[1]), p[2][1])
        /\ result.tokens = <<>>

\* tokenize of sum(x, #x threw at offset 7 after lexing four tokens.
ThrewAfterLexingPrefix ==
    /\ Called("tokenize")
    /\ call.input = Input("lexerr", <<<<"s", "u", "m", "(", "x", ",", " ">>, <<"#">>, <<"x">>>>)
    /\ Len(tokenize(call.input.parts[1]).tokens) = 4
    /\ ~result.ok
    /\ result.err.pos = 7
    /\ result.tokens = <<>>

\* C14: a number must end in a digit run: .5 and 1.5 lex as one Number token
\* each, and for a digit run followed by a "." with no digit after it
\* tokenize lexes the digits as a Number and then throws for the ".", at
\* its offset.
NumberEndsInDigits ==
    /\ (Called("tokenize") /\ call.input.kind = "fraction") =>
          /\ result.ok
          /\ result.tokens = <<Token(TOKEN_TYPES.NUMBER, call.formula, 0,
                                     Len(call.formula))>>
    /\ (Called("tokenize") /\ call.input.kind = "number") =>
          LET digits == call.input.parts[1] IN
          /\ tokenize(digits).tokens =
                <<Token(TOKEN_TYPES.NUMBER, digits, 0, Len(digits))>>
          /\ MatchNumber(call.formula, 0) = Len(digits)
          /\ ~result.ok
          /\ result.err = UnexpectedCharacter(Len(digits), ".")

\* tokenize of 12. + 1 threw for the "." at offset 2.
TrailingDotRejected ==
    /\ Called("tokenize")
    /\ call.input = Input("number", <<<<"1", "2">>, <<" ", "+", " ", "1">>>>)
    /\ ~result.ok
    /\ result.err = UnexpectedCharacter(2, ".")

\* C15: when a quote at the cursor has no closing quote later in the text,
\* tokenize throws Unexpected character at {offset}: " with the offset of
\* that opening quote, and gives no String token for it.
UnterminatedStringThrows ==
    (Called("tokenize") /\ call.input.kind = "unterminated") =>
        LET p == call.input.parts IN
        /\ tokenize(p[1]).ok
        /\ ~result.ok
        /\ result.err = UnexpectedCharacter(Len(p[1]), "\"")
        /\ result.tokens = <<>>

\* tokenize of "a" "abc threw for the second opening quote, at offset 4.
SecondStringUnterminated ==
    /\ Called("tokenize")
    /\ call.input = Input("unterminated", <<<<"\"", "a", "\"", " ">>, <<"a", "b", "c">>>>)
    /\ ~result.ok
    /\ result.err = UnexpectedCharacter(4, "\"")

\* The token at index i (1-based) is an identifier used as a variable: not
\* true or false, and no "(" delimiter follows it.
IsVariableUse(tokens, i) ==
    /\ tokens[i].type = TOKEN_TYPES.IDENTIFIER
    /\ tokens[i].value \notin {<<"t", "r", "u", "e">>, <<"f", "a", "l", "s", "e">>}
    /\ ~(/\ i < Len(tokens)
         /\ tokens[i + 1].type = TOKEN_TYPES.DELIMITER
         /\ tokens[i + 1].value = <<"(">>)

\* The variables of a formula in the order of its text, from token i on.
RECURSIVE VariableUses(_, _)
VariableUses(tokens, i) ==
    IF i > Len(tokens) THEN <<>>
    ELSE (IF IsVariableUse(tokens, i) THEN <<tokens[i].value>> ELSE <<>>)
            \o VariableUses(tokens, i + 1)

\* The names that occur at no earlier index, from index i on.
RECURSIVE FirstOccurrences(_, _)
FirstOccurrences(names, i) ==
    IF i > Len(names) THEN <<>>
    ELSE (IF \E j \in 1..(i - 1) : names[j] = names[i] THEN <<>> ELSE <<names[i]>>)
            \o FirstOccurrences(names, i + 1)

\* C16: getDependencies gives every variable of the formula once, in the
\* order of first occurrence, with the variables of untaken branches and
\* fallbacks, without the names of called functions and operators, and the
\* empty list for a formula without variables.
DependenciesAreFirstOccurrences ==
    (/\ Called("getDependencies")
     /\ tokenize(call.formula).ok
     /\ parse(tokenize(call.formula).tokens).ok) =>
        /\ result.ok
        /\ result.deps = FirstOccurrences(VariableUses(tokenize(call.formula).tokens, 1), 1)

\* getDependencies of sum(x, avg(y, x)) gave x, y.
RepeatedVariableListedOnce ==
    /\ Called("getDependencies")
    /\ call.formula = <<"s", "u", "m", "(", "x", ",", " ", "a", "v", "g", "(", "y", ",", " ", "x", ")", ")">>
    /\ result.ok
    /\ result.deps = <<<<"x">>, <<"y">>>>

\* has(b) is true and get(b) is a function for every built-in name b.
BuiltinsPresent(fns, defs) ==
    \A b \in BuiltinNames : has(fns, b) /\ get(fns, defs, b).t = "function"

\* C17: unregister of a built-in name, in any letter case and also after the
\* built-in was overridden by register, throws Cannot unregister built-in
\* function "{name}" and leaves the registry as it was; so before and after
\* every register and unregister call has(b) is true and get(b) is a function
\* for every built-in name b.
BuiltinsCannotBeUnregistered ==
    [][/\ BuiltinsPresent(functions, builtinFunctions)
       /\ BuiltinsPresent(functions', builtinFunctions')
       /\ (/\ pc = "idle"
           /\ call'.op = "unregister"
           /\ toLowerCase(call'.name.s) \in BuiltinNames) =>
              /\ ~result'.ok
              /\ result'.err = CannotUnregister(call'.name.s)
              /\ functions' = functions
              /\ keyOrder' = keyOrder
              /\ builtinFunctions' = builtinFunctions]_vars

\* unregister('SUM') threw after sum had been overridden by register.
OverriddenBuiltinStillProtected ==
    /\ Called("unregister")
    /\ call.name = Str(<<"S", "U", "M">>)
    /\ ~functions[n_sum].shared
    /\ ~result.ok
    /\ result.err = CannotUnregister(<<"S", "U", "M">>)

\* What a registerFunction call must give; withSpecialForms tells whether a
\* function registered as if or iferr is required to be called by formulas.
RegisterFunctionContract(withSpecialForms) ==
    (pc = "idle" /\ call'.op = "registerFunction") =>
        IF call'.name.t /= "string" \/ call'.name.s = <<>>
        THEN /\ ~result'.ok
             /\ result'.err = Error("Function name must be a non-empty string", -1, <<>>)
             /\ functions' = functions /\ keyOrder' = keyOrder
        ELSE IF call'.fn.t /= "function"
        THEN /\ ~result'.ok
             /\ result'.err =
                   Error("Function implementation must be a function", -1, <<>>)
             /\ functions' = functions /\ keyOrder' = keyOrder
        ELSE /\ result'.ok
             /\ result'.value = This
             /\ (withSpecialForms \/ toLowerCase(call'.name.s) \notin {n_if, n_iferr}) =>
                   FunctionCalledBy(call'.name.s, functions', builtinFunctions') = call'.fn

\* C18 as stated: registerFunction throws Function name must be a non-empty
\* string for a name that is no string or is empty, else Function
\* implementation must be a function for an fn that is no function, the
\* registry unchanged in both cases; on success it returns the evaluator and
\* formulas calling the name call the function.
RegisteredFunctionAlwaysCallable == [][RegisterFunctionContract(TRUE)]_vars

\* C18, amended: the same, except that a function registered under a casing
\* of if or iferr is not called by formulas, which evaluate those two names
\* as special forms.
RegisterFunctionValidates == [][RegisterFunctionContract(FALSE)]_vars

\* registerFunction('f', seven) returned the evaluator and f(1, 2) calls seven.
RegisteredAndCallable ==
    /\ Called("registerFunction")
    /\ call.name = Str(<<"f">>)
    /\ call.fn = seven
    /\ result.ok
    /\ result.value = This
    /\ FunctionCalledBy(<<"f">>, functions, builtinFunctions) = seven

\* The entries the operators and prefix operators desugar to.
InternalOperatorNames == {OP_MAP[op] : op \in DOMAIN OP_MAP} \cup {NOT_NAME, NEG_NAME}

\* C19: list() gives the names of all registered functions except the
\* internal operator mappings: every built-in public name and every custom
\* name registered and not unregistered since, and no operator entry.
ListHoldsEveryPublicName ==
    Called("list") => Range(result.list) = DOMAIN functions \ InternalOperatorNames

\* What has, get, list and describe of the registry give.
RegistryView(fns, defs, order) ==
    [has |-> [name \in RegistryNames |-> has(fns, name)],
     get |-> [name \in RegistryNames |-> get(fns, defs, name)],
     list |-> list(order),
     describe |-> describe(fns, defs, order)]

\* C20: nothing a caller does to the object getAll returned (deleting or
\* adding an entry, changing fn or description of an entry) changes what
\* has, get, list or describe give afterwards.
SnapshotEditsLeaveRegistryAlone ==
    [][call'.op = "mutate" =>
          RegistryView(functions', builtinFunctions', keyOrder') =
              RegistryView(functions, builtinFunctions, keyOrder)]_vars

\* C23: tokenize gives the same outcome whatever state earlier calls left the
\* regexes of TOKEN_RULES in, namely the one the first call after loading the
\* module gives; parse on those tokens gives the same AST or error and hands
\* the tokens back as it got them.
LexingIgnoresEarlierCalls ==
    /\ Called("tokenize") =>
          /\ result.ok = tokenize(call.formula).ok
          /\ result.err = tokenize(call.formula).err
          /\ result.tokens = tokenize(call.formula).tokens
    /\ Called("parse") =>
          /\ result.tokens = tokenize(call.formula).tokens
          /\ result.ok = parse(result.tokens).ok
          /\ result.err = parse(result.tokens).err
          /\ result.node = parse(result.tokens).node

\* A text was tokenized and parsed to a call node on regexes an earlier,
\* failed tokenize of another text had left with nonzero lastIndex.
ParsedOnLeftoverRegexes ==
    /\ Called("parse")
    /\ call.regexes /= FreshRegexes
    /\ \E r \in DOMAIN call.regexes : call.regexes[r] > Len(call.formula)
    /\ result.ok
    /\ result.node.type = "function"
    /\ Len(result.tokens) >= 3

\* C24: a one-token formula parses to a boolean literal only when the token is
\* the identifier true or false; a String token parses to the string literal
\* of its text and evaluates to that string; TRUE parses to a variable.
BooleansOnlyFromIdentifiers ==
    /\ (Called("parse") /\ call.input.kind = "literal" /\ result.ok) =>
          LET token == result.tokens[1] IN
          /\ (result.node.type = "literal" /\ result.node.value.t = "boolean") =>
                /\ token.type = TOKEN_TYPES.IDENTIFIER
                /\ token.value \in {<<"t", "r", "u", "e">>, <<"f", "a", "l", "s", "e">>}
          /\ token.type = TOKEN_TYPES.STRING =>
                result.node = LiteralNode(Str(token.value))
          /\ call.formula = <<"T", "R", "U", "E">> => result.node = VariableNode(<<"T", "R", "U", "E">>)
    /\ (Called("evaluate") /\ call.formula \in {<<"\"", "t", "r", "u", "e", "\"">>, <<"\"", "f", "a", "l", "s", "e", "\"">>}) =>
          /\ result.ok
          /\ result.value = Str(SubSeq(call.formula, 2, Len(call.formula) - 1))

\* A tree whose nodes are all number, string or boolean literals, variables
\* and calls: no node is null.
RECURSIVE IsWholeTree(_)
IsWholeTree(node) ==
    IF node.type = "literal" THEN node.value.t \in {"number", "string", "boolean"}
    ELSE IF node.type = "variable" THEN TRUE
    ELSE \A i \in DOMAIN node.args : IsWholeTree(node.args[i])

\* C25: whenever parse returns, the tree it returns has no null node; a
\* formula with an operand missing makes parse throw.
ParsedTreeHasNoEmptyNode ==
    (Called("parse") /\ result.ok) => IsWholeTree(result.node)

\* C26: parse accepts a call whose arguments are separated by one comma each
\* and throws on a call with two adjacent arguments or with a leading, a
\* trailing or a doubled comma.
CommasSeparateArguments ==
    /\ (Called("parse") /\ call.input.kind = "arguments") =>
          result.ok /\ result.node.type = "function"
    /\ (Called("parse") /\ call.input.kind = "commas") => ~result.ok

\* The tokens with the text of every String token replaced by text.
WithStringText(tokens, text) ==
    [i \in DOMAIN tokens |->
        IF tokens[i].type = TOKEN_TYPES.STRING
        THEN [tokens[i] EXCEPT !.value = text]
        ELSE tokens[i]]

\* The tree with the value of every string literal replaced by text.
RECURSIVE WithLiteralText(_, _)
WithLiteralText(node, text) ==
    IF node.type = "literal"
    THEN IF node.value.t = "string" THEN LiteralNode(Str(text)) ELSE node
    ELSE IF node.type = "variable" THEN node
    ELSE [node EXCEPT !.args = [i \in DOMAIN node.args |->
                                    WithLiteralText(node.args[i], text)]]

\* C29: what a String token holds never changes how the tokens parse: parse
\* gives the tree, or throws the error, it gives when every String token
\* holds the text s, up to the values of the string literals; concat("a", ")")
\* parses to a call with two arguments.
StringTextNeverDelimits ==
    (Called("parse") /\ call.input.kind = "delimiter") =>
        LET plain == parse(WithStringText(result.tokens, <<"s">>)) IN
        /\ result.ok = plain.ok
        /\ result.ok => WithLiteralText(result.node, <<"s">>) = plain.node
        /\ ~result.ok => result.err.msg = plain.err.msg
        /\ call.formula = <<"c", "o", "n", "c", "a", "t", "(", "\"", "a", "\"", ",", " ", "\"", ")", "\"", ")">> =>
              /\ result.ok
              /\ result.node = FunctionNode(<<"c", "o", "n", "c", "a", "t">>, <<LiteralNode(Str(<<"a">>)),
                                                       LiteralNode(Str(<<")">>))>>)

\* The cursor after the turn of tokenize's while loop that starts at pos on
\* regexes as found, when the turn does not throw.
CursorAfterLexerTurn(str, pos, regexes) == pos + FirstRule(str, pos, regexes).len

\* tokens[pos] is an operator that parseExpression's loop would take up at
\* the floor minPrec.
LoopTakesOperator(tokens, pos, minPrec) ==
    /\ tokens[pos + 1].type = TOKEN_TYPES.OPERATOR
    /\ tokens[pos + 1].value \in DOMAIN OP_PRECEDENCE
    /\ OP_PRECEDENCE[tokens[pos + 1].value] >= minPrec

\* The outcome of the right operand of the operator at pos.
RightOperand(tokens, pos) ==
    parseExpression(tokens, pos + 1, OP_PRECEDENCE[tokens[pos + 1].value] + 1)

\* The precedence floors parseExpression is called with.
Floors == 0..7

\* C30: on every text and on every token sequence tokenize gives, each turn of
\* the lexer loop moves the cursor forward by at least one character, each
\* call of parseToken and parseExpression that returns has consumed at least
\* one token, and so has each turn of the operator loop and of the argument
\* loop; tokenize and parse end by returning or throwing.
LoopsConsumeInput ==
    /\ (Called("tokenize") \/ Called("parse")) =>
          result.ok \/ result.err /= NoError
    /\ Called("tokenize") =>
          \A pos \in 0..(Len(call.formula) - 1) :
              FirstRule(call.formula, pos, call.regexes).rule /= 0 =>
                  CursorAfterLexerTurn(call.formula, pos, call.regexes) >= pos + 1
    /\ (Called("tokenize") /\ result.ok) =>
          \A pos \in 0..(Len(result.tokens) - 1) :
              /\ parseToken(result.tokens, pos).ok =>
                    parseToken(result.tokens, pos).pos >= pos + 1
              /\ \A minPrec \in Floors :
                    /\ parseExpression(result.tokens, pos, minPrec).ok =>
                          parseExpression(result.tokens, pos, minPrec).pos >= pos + 1
                    /\ (LoopTakesOperator(result.tokens, pos, minPrec)
                          /\ RightOperand(result.tokens, pos).ok) =>
                          RightOperand(result.tokens, pos).pos >= pos + 1
              /\ (result.tokens[pos + 1].value /= <<")">>
                    /\ parseArguments(result.tokens, pos, <<>>).ok) =>
                    parseArguments(result.tokens, pos, <<>>).pos >= pos + 1

\* tokenize returned a call with an operator inside its argument list, and
\* parse returned its tree: all three loops have turned.
AllLoopsTurned ==
    /\ Called("parse")
    /\ result.ok
    /\ result.node.type = "function"
    /\ Len(result.node.args) = 3
    /\ result.node.args[1].type = "function"
    /\ Len(result.tokens) < Len(call.formula)

\* C22: iferr around a division by zero gives the fallback: evaluating
\* iferr(1/0, 0) gives 0.
IferrRecoversDivisionByZero ==
    (Called("evaluate") /\ call.input.kind = "division") =>
        /\ result.ok
        /\ result.value = parseFloat(call.input.parts[2])

\* What running the argument texts from index i on gives when each is run
\* once, in order, until one throws: the values, the Error, the log.
RECURSIVE ArgumentsInOrder(_, _, _)
ArgumentsAfter(texts, i, done, r) ==
    IF ~r.ok THEN Ran(FALSE, <<>>, r.err, done.log \o r.log)
    ELSE ArgumentsInOrder(texts, i + 1,
             Ran(TRUE, Append(done.value, r.value), NoError, done.log \o r.log))

ArgumentsInOrder(texts, i, done) ==
    IF i > Len(texts) THEN done
    ELSE ArgumentsAfter(texts, i, done, EvaluateAlone(texts[i]))

\* C27: a call of a name with no implementation throws Function not found
\* and runs no argument; a call of a registered name runs its arguments once
\* each, left to right, until one throws, and when none throws calls the
\* implementation once, after them, with their values in order.
LookupComesBeforeArguments ==
    (Called("evaluate") /\ call.input.kind = "lookup") =>
        LET name == toLowerCase(call.input.parts[1])
            fn   == get(functions, builtinFunctions, name)
            args == ArgumentsInOrder(call.input.parts[2], 1,
                                     Ran(TRUE, <<>>, NoError, <<>>))
        IN  IF ~Truthy(fn)
            THEN /\ ~result.ok
                 /\ result.err = Error("Function {name} not found", -1, name)
                 /\ Len(result.log) = 1
            ELSE /\ SubSeq(result.log, 2, 1 + Len(args.log)) = args.log
                 /\ ~args.ok => /\ ~result.ok
                                /\ result.err = args.err
                                /\ Len(result.log) = 1 + Len(args.log)
                 /\ args.ok => /\ Len(result.log) = 2 + Len(args.log)
                               /\ result.log[Len(result.log)] = CallEvent(fn, args.value)

\* nope(w, 1) threw Function not found although w is not in the context.
UnknownFunctionHidUnknownVariable ==
    /\ Called("evaluate")
    /\ call.input = Input("lookup", <<<<"n", "o", "p", "e">>, <<t_w, t_1>>>>)
    /\ ~HasProperty(HeapOf(context, call.local), "local", t_w)
    /\ ~result.ok
    /\ result.err.msg = "Function {name} not found"

\* C28: in every registry state register calls reach, avg(args) evaluates to
\* what mean(args) evaluates to, also after mean was registered anew.
AvgFollowsRegisteredMean ==
    (Called("evaluate") /\ call.input.kind = "lookup" /\ call.input.parts[1] = <<"a", "v", "g">>) =>
        SameOutcome(EvaluateAlone(TextOf(Input("lookup", <<<<"m", "e", "a", "n">>, call.input.parts[2]>>))))

\* The formulas a host evaluates on the instance it does not write to.
InstanceTexts == {<<"f", "(", ")">>, <<"t", "r", "i", "p", "l", "e", "(", "1", ")">>, <<"s", "u", "m", "(", "x", ",", " ", "1", ")">>, <<"m", "e", "a", "n", "(", "1", ",", " ", "1", ")">>, <<"a", "v", "g", "(", "1", ")">>, <<"x">>}

\* What has, get, list and evaluate give on an instance.
InstanceResults(instance, defs) ==
    [has |-> [name \in RegistryNames \cup InstanceNames |-> has(instance.functions, name)],
     get |-> [name \in RegistryNames \cup InstanceNames |->
                 get(instance.functions, defs, name)],
     list |-> list(instance.keyOrder),
     evaluate |-> [text \in InstanceTexts |->
                     evaluate(text, HeapOf(instance.context, <<>>),
                              instance.functions, defs).out]]

\* C21: no register, unregister or registerFunction call on one instance
\* changes what has, get, list or evaluate give on another, and a function
\* only the one has registered is Function not found to the other.
InstancesAreIndependent ==
    [][(pc = "idle" /\ call'.op \in {"register", "unregister", "registerFunction"}) =>
          /\ InstanceResults(other', builtinFunctions') =
                 InstanceResults(other, builtinFunctions)
          /\ \A name \in InstanceNames :
                (name \in DOMAIN functions' /\ name \notin DOMAIN other'.functions) =>
                    LET r == evaluate(name \o <<"(", ")">>, HeapOf(other'.context, <<>>),
                                      other'.functions, builtinFunctions').out
                    IN  /\ ~r.ok
                        /\ r.err = Error("Function {name} not found", -1, name)]_vars

\* The host registered f on one instance after it had registered triple on
\* the other, and neither has the other's function.
RegisteredOnEitherInstance ==
    /\ Called("registerFunction")
    /\ call.name = Str(<<"f">>)
    /\ result.ok
    /\ <<"f">> \in DOMAIN functions
    /\ <<"t", "r", "i", "p", "l", "e">> \notin DOMAIN functions
    /\ <<"t", "r", "i", "p", "l", "e">> \in DOMAIN other.functions
    /\ <<"f">> \notin DOMAIN other.functions
====
